---- MODULE Spec2Model ----
(***************************************************************************)
(* Model of resenje.org/fsutil: the hash-injecting filesystem HashFS, the  *)
(* MD5Hasher and the backup filesystem BackupFS.                           *)
(*                                                                         *)
(* Strings are sequences of one-character strings, so that splitting,      *)
(* joining and comparing them is computed as the Go code computes it.      *)
(***************************************************************************)
EXTENDS Integers, Sequences, FiniteSets, TLC

VARIABLES
    fsys,        \* HashFS.fsys / BackupFS.fsys: the wrapped filesystem (path -> node)
    invalidErr,  \* the error kind the wrapped filesystem gives for an invalid path
    hashLength,  \* MD5Hasher.hashLength
    hashes,      \* HashFS.hashes: path -> hash
    disk,        \* the backup directory on disk (path -> node), or NoDisk
    inst,        \* the BackupFS instance: phase, cleaned, cleaningErr
    result,      \* what the last call returned
    handle,      \* the fs.File a caller holds: a hashFile or a backupFile
    callers,     \* the goroutines inside HashFS.hash: where each one is
    peer         \* a second BackupFS instance constructed on the same directory

vars == <<fsys, invalidErr, hashLength, hashes, disk, inst, result, handle, callers, peer>>

----------------------------------------------------------------------------
(* Bounds *)

\* largest hash length of the hasher handed to HashFS
MaxHashLength == 1
\* largest hash length tried on the MD5Hasher alone
MaxHasherLength == 33
\* largest number of regular files in a generated directory
MaxFiles == 2

----------------------------------------------------------------------------
(* Strings *)

\* the characters of the model in byte order
Alphabet == <<".", "/", "0", "1", "2", "3", "4", "5", "6", "7", "8", "9",
              "a", "b", "c", "d", "e", "f", "m", "s", "u", "z">>

Ord(c) == CHOOSE i \in 1..Len(Alphabet) : Alphabet[i] = c

\* Go's string comparison a < b (bytewise lexicographic)
RECURSIVE StrLess(_, _)
StrLess(a, b) ==
    IF b = <<>> THEN FALSE
    ELSE IF a = <<>> THEN TRUE
    ELSE IF Head(a) = Head(b) THEN StrLess(Tail(a), Tail(b))
    ELSE Ord(Head(a)) < Ord(Head(b))

\* strings.LastIndex(s, c) for a one-character c, as a 1-based position; 0 if absent
RECURSIVE LastIndexFrom(_, _, _)
LastIndexFrom(s, c, i) ==
    IF i = 0 THEN 0
    ELSE IF s[i] = c THEN i
    ELSE LastIndexFrom(s, c, i - 1)

LastIndex(s, c) == LastIndexFrom(s, c, Len(s))

\* strings.Split(s, sep) for a one-character sep: always at least one part
RECURSIVE StrSplitAcc(_, _, _, _)
StrSplitAcc(s, sep, cur, acc) ==
    IF s = <<>> THEN Append(acc, cur)
    ELSE IF Head(s) = sep THEN StrSplitAcc(Tail(s), sep, <<>>, Append(acc, cur))
    ELSE StrSplitAcc(Tail(s), sep, Append(cur, Head(s)), acc)

StrSplit(s, sep) == StrSplitAcc(s, sep, <<>>, <<>>)

\* filepath.Split(name): the directory part with its trailing slash, and the file part
PathSplit(name) ==
    LET i == LastIndex(name, "/")
    IN  [d |-> SubSeq(name, 1, i), f |-> SubSeq(name, i + 1, Len(name))]

\* name without its trailing slashes
RECURSIVE TrimSlashes(_)
TrimSlashes(s) ==
    IF s # <<>> /\ s[Len(s)] = "/" THEN TrimSlashes(SubSeq(s, 1, Len(s) - 1)) ELSE s

\* filepath.Base(name)
PathBase(name) ==
    IF name = <<>> THEN <<".">>
    ELSE LET t == TrimSlashes(name)
         IN  IF t = <<>> THEN <<"/">> ELSE PathSplit(t).f

\* filepath.ToSlash(filepath.Join(dir, elem)) for a clean dir and a one-segment elem
PathJoin(dir, elem) ==
    IF dir = <<>> \/ dir = <<".">> THEN elem ELSE dir \o <<"/">> \o elem

\* fs.ValidPath(name): "." or slash-separated elements none of them "", "." or ".."
ValidPath(name) ==
    \/ name = <<".">>
    \/ \A p \in { StrSplit(name, "/")[i] : i \in 1..Len(StrSplit(name, "/")) } :
            p \notin {<<>>, <<".">>, <<".", ".">>}

----------------------------------------------------------------------------
(* File contents and their MD5 digests *)

Contents == {"a", "b"}

\* hex.EncodeToString(md5.Sum(content)) of the contents "a" and "b"
Md5Hex(content) ==
    IF content = "a"
    THEN <<"0","c","c","1","7","5","b","9","c","0","f","1","b","6","a","8",
           "3","1","c","3","9","9","e","2","6","9","7","7","2","6","6","1">>
    ELSE <<"9","2","e","b","5","f","f","e","e","6","a","e","2","f","e","c",
           "3","a","d","7","1","c","7","7","7","5","3","1","5","7","8","f">>

\* len(hash.Sum(nil)): the raw MD5 digest is 16 bytes
Md5Size == 16

hexChars == {"0", "1", "2", "3", "4", "5", "6", "7", "8", "9",
             "a", "b", "c", "d", "e", "f"}

----------------------------------------------------------------------------
(* MD5Hasher *)

\* MD5Hasher.Hash
MD5Hash(content, n) ==
    IF Md5Size < n THEN <<>> ELSE SubSeq(Md5Hex(content), 1, n)

\* MD5Hasher.IsHash
MD5IsHash(h, n) ==
    /\ Len(h) = n
    /\ \A i \in 1..Len(h) : h[i] \in hexChars

----------------------------------------------------------------------------
(* Errors *)

NoErr == [kind |-> "nil", stage |-> ""]

\* fs.ErrNotExist
ErrNotExist == [kind |-> "notexist", stage |-> ""]

Err(kind) == [kind |-> kind, stage |-> ""]

\* fmt.Errorf(stage + ": %w", err)
Wrap(stage, err) == [kind |-> err.kind, stage |-> stage]

\* errors.Is(err, fs.ErrNotExist)
IsNotExist(err) == err.kind = "notexist"

IsOk(err) == err.kind = "nil"

----------------------------------------------------------------------------
(* The wrapped filesystem: a function from the paths that exist to nodes *)

\* a directory (mode 0o777)
DirNode == [kind |-> "dir", data |-> "", fault |-> "none", perm |-> 511]

\* a regular file (mode 0o444, as embed.FS reports)
FileNode(data, fault) == [kind |-> "file", data |-> data, fault |-> fault, perm |-> 292]

\* the node of no file
NoNode == [kind |-> "none", data |-> "", fault |-> "none", perm |-> 0]

\* fsys.Open(name): an invalid path fails as the filesystem decides (embed.FS
\* reports not-exist, os.DirFS reports invalid), an absent one with not-exist,
\* an unreadable one with a permission error, a symbolic link to nothing (a
\* name the directory lists) with not-exist
FsOpen(fs, invalid, name) ==
    IF ~ValidPath(name) THEN [err |-> Err(invalid), node |-> NoNode]
    ELSE IF name \notin DOMAIN fs THEN [err |-> ErrNotExist, node |-> NoNode]
    ELSE IF fs[name].fault = "dangling" THEN [err |-> ErrNotExist, node |-> NoNode]
    ELSE IF fs[name].fault = "open" THEN [err |-> Err("permission"), node |-> NoNode]
    ELSE [err |-> NoErr, node |-> fs[name]]

\* the paths directly inside directory dir
Children(fs, dir) ==
    { p \in DOMAIN fs : p # <<".">> /\ PathJoin(dir, PathSplit(p).f) = p }

\* the least string of a non-empty set
MinStr(S) == CHOOSE x \in S : \A y \in S : y = x \/ StrLess(x, y)

\* the strings of a set in increasing order
RECURSIVE SortedSeq(_)
SortedSeq(S) ==
    IF S = {} THEN <<>> ELSE <<MinStr(S)>> \o SortedSeq(S \ {MinStr(S)})

\* a directory entry: its name, whether it is a directory, and the file it stands for
Entry(fs, p, src) == [name |-> PathSplit(p).f, isDir |-> fs[p].kind = "dir",
                      path |-> p, src |-> src]

\* fs.ReadDir(fsys, name): the entries of the directory sorted by file name
Entries(fs, s, src) == [err |-> NoErr, list |-> [i \in 1..Len(s) |-> Entry(fs, s[i], src)]]

ReadDirOpened(fs, o, name, src) ==
    IF ~IsOk(o.err) THEN [err |-> o.err, list |-> <<>>]
    ELSE IF o.node.kind # "dir" THEN [err |-> Err("notdir"), list |-> <<>>]
    ELSE Entries(fs, SortedSeq(Children(fs, name)), src)

FsReadDir(fs, invalid, name, src) == ReadDirOpened(fs, FsOpen(fs, invalid, name), name, src)

\* fs.Glob(fsys, dir + "/*"): the paths inside dir in increasing order; a
\* directory that cannot be read matches nothing
Paths(list) == [i \in 1..Len(list) |-> list[i].path]

FsGlob(fs, invalid, dir) == Paths(FsReadDir(fs, invalid, dir, "").list)

\* fs.ReadFile(fsys, name)
ReadOpened(o) ==
    IF ~IsOk(o.err) THEN [err |-> o.err, data |-> ""]
    ELSE IF o.node.kind = "dir" THEN [err |-> Err("isdir"), data |-> ""]
    ELSE [err |-> NoErr, data |-> o.node.data]

FsReadFile(fs, invalid, name) == ReadOpened(FsOpen(fs, invalid, name))

\* fs.Stat(fsys, name)
FsStat(fs, invalid, name) == FsOpen(fs, invalid, name)

----------------------------------------------------------------------------
(* HashFS *)

\* the end of HashFS.hash: the hash h is stored in the cache and returned
hashStore(hs, name, h) ==
    [h |-> h, err |-> NoErr,
     hashes |-> [q \in DOMAIN hs \cup {name} |-> IF q = name THEN h ELSE hs[q]]]

\* HashFS.hash after the file was opened: its Stat, the test for a directory
\* and the hasher reading the file n
hashNode(hs, name, n) ==
    IF n.fault = "stat" THEN [h |-> <<>>, err |-> Wrap("stat file", Err("io")), hashes |-> hs]
    ELSE IF n.kind = "dir" THEN [h |-> <<>>, err |-> NoErr, hashes |-> hs]
    ELSE IF n.fault = "read"
    THEN [h |-> <<>>, err |-> Wrap("hash file", Err("io")), hashes |-> hs]
    ELSE hashStore(hs, name, MD5Hash(n.data, hashLength))

\* HashFS.hash after s.fsys.Open(name) returned o
hashOpened(hs, name, o) ==
    IF ~IsOk(o.err) THEN [h |-> <<>>, err |-> Wrap("open file", o.err), hashes |-> hs]
    ELSE hashNode(hs, name, o.node)

\* HashFS.hash(name) against the cache hs: the hash, the error and the cache after
hash(hs, name) ==
    IF name \in DOMAIN hs THEN [h |-> hs[name], err |-> NoErr, hashes |-> hs]
    ELSE hashOpened(hs, name, FsOpen(fsys, invalidErr, name))

\* hashIndex taking the last part of every name for the hash
hashIndexLast(parts) == Len(parts)

\* the position (from 1) of the part of a file name that may be a hash
hashIndex(parts) ==
    IF Len(parts) > 2 /\ ~(Len(parts) = 3 /\ parts[1] = <<>>)
    THEN Len(parts) - 1
    ELSE Len(parts)

\* the loop of canonicalName: the parts joined with dots, the hash part left out
RECURSIVE joinParts(_, _, _)
joinParts(parts, i, f) ==
    IF i > Len(parts) THEN f
    ELSE IF i = hashIndex(parts) /\ MD5IsHash(parts[i], hashLength)
         THEN joinParts(parts, i + 1, f)
         ELSE joinParts(parts, i + 1,
                        (IF i # 1 THEN f \o <<".">> ELSE f) \o parts[i])

\* the part c of a name as hashFromName: c if it is a hash
hashPart(c) == IF MD5IsHash(c, hashLength) THEN c ELSE <<>>

\* the first half of canonicalName for the directory d and the parts of the
\* file name: the name without its hash part, and that part
splitParts(d, parts) ==
    [canonicalName |-> d \o joinParts(parts, 1, <<>>),
     hashFromName |-> hashPart(parts[hashIndex(parts)])]

\* strings.Split(f, ".") of the file part
splitFile(sp) == splitParts(sp.d, StrSplit(sp.f, "."))

\* the first half of canonicalName(name)
splitName(name) == splitFile(PathSplit(name))

Resolved(name, h, err, hs) == [name |-> name, hash |-> h, err |-> err, hashes |-> hs]

\* canonicalLiteral giving the literal name an empty hash whenever the token
\* of the name is not the hash of the stripped name
canonicalLiteralEmptyToken(name, sn, h3) ==
    IF ~IsOk(h3.err) THEN Resolved(<<>>, <<>>, h3.err, h3.hashes)
    ELSE Resolved(name, <<>>, NoErr, h3.hashes)

\* the end of canonicalName: the token of the name is not the hash of the
\* stripped name, and h3 is the hash of the literal name
canonicalLiteral(name, sn, h3) ==
    IF ~IsOk(h3.err) THEN Resolved(<<>>, <<>>, h3.err, h3.hashes)
    ELSE IF sn.hashFromName # h3.h THEN Resolved(name, h3.h, NoErr, h3.hashes)
    ELSE Resolved(name, <<>>, NoErr, h3.hashes)

\* canonicalName with the hash h2 of the stripped name, or of the literal
\* name if the stripped name does not exist
canonicalCompare(name, sn, h2) ==
    IF ~IsOk(h2.err) THEN Resolved(<<>>, <<>>, h2.err, h2.hashes)
    ELSE IF sn.hashFromName # <<>> /\ sn.hashFromName # h2.h
    THEN canonicalLiteral(name, sn, hash(h2.hashes, name))
    ELSE Resolved(sn.canonicalName, h2.h, NoErr, h2.hashes)

\* canonicalFallback hashing the literal name after any error of the stripped
\* name
canonicalFallbackAnyError(name, sn, h1) ==
    canonicalCompare(name, sn, IF ~IsOk(h1.err) THEN hash(h1.hashes, name) ELSE h1)

\* canonicalName with the result h1 of hashing the stripped name
canonicalFallback(name, sn, h1) ==
    canonicalCompare(name, sn, IF IsNotExist(h1.err) THEN hash(h1.hashes, name) ELSE h1)

\* canonicalName with the name split
canonicalSplit(hs, name, sn) == canonicalFallback(name, sn, hash(hs, sn.canonicalName))

\* HashFS.canonicalName(name) against the cache hs
canonicalName(hs, name) == canonicalSplit(hs, name, splitName(name))

\* insertHashAt splitting a dotfile at its leading dot
insertHashAtLeadingDot(d, f, i, h) ==
    IF i > 0
    THEN d \o SubSeq(f, 1, i - 1) \o <<".">> \o h \o SubSeq(f, i, Len(f))
    ELSE d \o f \o <<".">> \o h

\* the end of hashedPath: the hash put before the extension that starts at
\* position i of the file name f
insertHashAt(d, f, i, h) ==
    IF i > 1
    THEN d \o SubSeq(f, 1, i - 1) \o <<".">> \o h \o SubSeq(f, i, Len(f))
    ELSE d \o f \o <<".">> \o h

insertHash(sp, h) == insertHashAt(sp.d, sp.f, LastIndex(sp.f, "."), h)

\* HashFS.hashedPath(name, hash)
hashedPath(name, h) == IF h = <<>> THEN name ELSE insertHash(PathSplit(name), h)

\* what a call returned
Result(op, arg, err, val) == [op |-> op, arg |-> arg, err |-> err, val |-> val]

NoVal == <<>>

\* a hashed file is asked for by its bare name
BareName(name, cn) == cn.hash # <<>> /\ cn.name = name

\* HashFS.Open after s.fsys.Open(canonicalName) returned o
OpenFile(name, path, o) ==
    IF ~IsOk(o.err) THEN Result("Open", name, o.err, NoVal)
    ELSE Result("Open", name, NoErr, [name |-> name, path |-> path, node |-> o.node])

\* HashFS.Open after canonicalName returned cn
OpenResolved(name, cn) ==
    [hashes |-> cn.hashes,
     res |-> IF ~IsOk(cn.err) THEN Result("Open", name, cn.err, NoVal)
             ELSE IF BareName(name, cn) THEN Result("Open", name, ErrNotExist, NoVal)
             ELSE OpenFile(name, cn.name, FsOpen(fsys, invalidErr, cn.name))]

\* HashFS.Open(name): the result and the cache after
Open(hs, name) == OpenResolved(name, canonicalName(hs, name))

\* HashFS.ReadFile after fs.ReadFile(s.fsys, canonicalName) returned r
ReadFileFile(name, path, r) ==
    IF ~IsOk(r.err) THEN Result("ReadFile", name, r.err, NoVal)
    ELSE Result("ReadFile", name, NoErr, [path |-> path, data |-> r.data])

\* HashFS.ReadFile after canonicalName returned cn
ReadFileResolved(name, cn) ==
    [hashes |-> cn.hashes,
     res |-> IF ~IsOk(cn.err) THEN Result("ReadFile", name, cn.err, NoVal)
             ELSE IF BareName(name, cn) THEN Result("ReadFile", name, ErrNotExist, NoVal)
             ELSE ReadFileFile(name, cn.name, FsReadFile(fsys, invalidErr, cn.name))]

\* HashFS.ReadFile(name)
ReadFile(hs, name) == ReadFileResolved(name, canonicalName(hs, name))

\* HashFS.Stat after fs.Stat(s.fsys, canonicalName) returned r
StatFile(name, path, r) ==
    IF ~IsOk(r.err) THEN Result("Stat", name, r.err, NoVal)
    ELSE Result("Stat", name, NoErr,
                [name |-> PathBase(name), path |-> path, node |-> r.node])

\* StatResolved without the test for a hashed file asked for by its bare name
StatResolvedBareName(name, cn) ==
    [hashes |-> cn.hashes,
     res |-> IF ~IsOk(cn.err) THEN Result("Stat", name, cn.err, NoVal)
             ELSE StatFile(name, cn.name, FsStat(fsys, invalidErr, cn.name))]

\* HashFS.Stat after canonicalName returned cn
StatResolved(name, cn) ==
    [hashes |-> cn.hashes,
     res |-> IF ~IsOk(cn.err) THEN Result("Stat", name, cn.err, NoVal)
             ELSE IF BareName(name, cn) THEN Result("Stat", name, ErrNotExist, NoVal)
             ELSE StatFile(name, cn.name, FsStat(fsys, invalidErr, cn.name))]

\* HashFS.Stat(name)
Stat(hs, name) == StatResolved(name, canonicalName(hs, name))

\* HashFS.HashedPath after canonicalName returned cn
HashedPathResolved(name, cn) ==
    [hashes |-> cn.hashes,
     res |-> IF ~IsOk(cn.err) THEN Result("HashedPath", name, cn.err, NoVal)
             ELSE Result("HashedPath", name, NoErr, hashedPath(cn.name, cn.hash))]

\* HashFS.HashedPath(name)
HashedPath(hs, name) == HashedPathResolved(name, canonicalName(hs, name))

RECURSIVE globLoop(_, _, _, _)

\* the body of the loop of HashFS.Glob for the match r[i], canonicalName
\* having returned cn
globStep(r, i, out, cn) ==
    IF ~IsOk(cn.err)
    THEN IF IsNotExist(cn.err) THEN globLoop(cn.hashes, r, i + 1, out)
         ELSE [hashes |-> cn.hashes, err |-> cn.err, list |-> <<>>]
    ELSE globLoop(cn.hashes, r, i + 1, Append(out, hashedPath(cn.name, cn.hash)))

\* the loop of HashFS.Glob over the matches r from position i on
globLoop(hs, r, i, out) ==
    IF i > Len(r) THEN [hashes |-> hs, err |-> NoErr, list |-> out]
    ELSE globStep(r, i, out, canonicalName(hs, r[i]))

GlobResult(dir, g) == [hashes |-> g.hashes, res |-> Result("Glob", dir, g.err, g.list)]

\* HashFS.Glob(dir + "/*")
Glob(hs, dir) == GlobResult(dir, globLoop(hs, FsGlob(fsys, invalidErr, dir), 1, <<>>))

RECURSIVE readDirLoop(_, _, _, _, _)

\* the body of the loop of HashFS.ReadDir for the regular file r[i],
\* canonicalName having returned cn
readDirStep(name, r, i, out, cn) ==
    IF ~IsOk(cn.err)
    THEN IF IsNotExist(cn.err) THEN readDirLoop(cn.hashes, name, r, i + 1, out)
         ELSE [hashes |-> cn.hashes, err |-> cn.err, list |-> <<>>]
    ELSE readDirLoop(cn.hashes, name, r, i + 1,
             Append(out, [r[i] EXCEPT !.name = hashedPath(PathBase(cn.name), cn.hash)]))

\* the loop of HashFS.ReadDir over the entries r from position i on
readDirLoop(hs, name, r, i, out) ==
    IF i > Len(r) THEN [hashes |-> hs, err |-> NoErr, list |-> out]
    ELSE IF r[i].isDir THEN readDirLoop(hs, name, r, i + 1, Append(out, r[i]))
    ELSE readDirStep(name, r, i, out, canonicalName(hs, PathJoin(name, r[i].name)))

ReadDirResult(name, g) ==
    [hashes |-> g.hashes, res |-> Result("ReadDir", name, g.err, g.list)]

\* HashFS.ReadDir after fs.ReadDir(s.fsys, name) returned d
ReadDirListed(hs, name, d) ==
    IF ~IsOk(d.err) THEN [hashes |-> hs, res |-> Result("ReadDir", name, d.err, NoVal)]
    ELSE ReadDirResult(name, readDirLoop(hs, name, d.list, 1, <<>>))

\* HashFS.ReadDir(name)
ReadDir(hs, name) == ReadDirListed(hs, name, FsReadDir(fsys, invalidErr, name, "fsys"))

----------------------------------------------------------------------------
(* The filesystems HashFS is tried on *)

dS == <<"s">>
dU == <<"s", "/", "u">>
dot == <<".">>
\* a directory whose name has the shape of a token of one character
dD == <<"d">>

InS(f) == <<"s", "/">> \o f

\* file names of every shape, T being a token of length n: with and without
\* an extension, a dotfile, a name that carries a token, a name that is a token
FileNames(n) ==
    LET T == MD5Hash("a", n)
    IN  { p \in { InS(<<"m", ".", "s">>), InS(<<"m">>), InS(<<".", "m">>),
                  InS(<<"m", ".">> \o T \o <<".", "s">>), InS(T) } : ValidPath(p) }

FileChoices == { FileNode(c, "none") : c \in Contents }

\* the directories ".", "s", "s/u" and "d" and the regular files of the
\* function files
Tree(files) ==
    [p \in {dot, dS, dU, dD} \cup DOMAIN files |->
        IF p \in DOMAIN files THEN files[p] ELSE DirNode]

Trees(n) ==
    { Tree(files) : files \in UNION { [S -> FileChoices] :
                        S \in { X \in SUBSET FileNames(n) : Cardinality(X) <= MaxFiles } } }

RegularFiles(fs) == { p \in DOMAIN fs : fs[p].kind = "file" }

\* the names callers ask for: the files, their names with each token inserted,
\* their names with the token left out, the directories and an absent name
Requests ==
    RegularFiles(fsys)
    \cup { hashedPath(p, MD5Hash(fsys[p].data, hashLength)) : p \in RegularFiles(fsys) }
    \cup { hashedPath(p, MD5Hash("a", hashLength)) : p \in RegularFiles(fsys) }
    \cup { splitName(p).canonicalName : p \in RegularFiles(fsys) }
    \cup {dot, dS, dU, dD, InS(<<"z">>)}

\* the directories callers list: the directories, a regular file and an absent name
DirRequests ==
    {dot, dS, dU, InS(<<"z">>)} \cup { p \in RegularFiles(fsys) : p = InS(<<"m">>) }

NoDisk == <<>>
\* no BackupFS constructed: phase is "none", "failed" (NewBackupFS returned err),
\* "armed" (the timer runs) or "cleaned" (the timer fired); cleaned is the
\* channel Cleaned() being closed, cleaningErr what CleaningErr() returns,
\* removed the paths the backup directory held when the timer fired; timer is
\* the place of the timer goroutine ("none", "waiting" on the timer, "removed"
\* after os.RemoveAll, "recorded" after storing cleaningErr, "done"),
\* removeErr what os.RemoveAll returned, removals and closes the number of
\* times the directory was removed and the channel closed, dir the cleaned
\* directory NewBackupFS was given
NoInst == [phase |-> "none", err |-> NoErr, cleaned |-> FALSE, cleaningErr |-> NoErr,
           removed |-> {}, timer |-> "none", removeErr |-> NoErr,
           removals |-> 0, closes |-> 0, dir |-> <<>>]
NoResult == Result("none", <<>>, NoErr, NoVal)

\* no file is held. A held file has its type ("hash" for a hashFile, "backup"
\* for a backupFile), the name it was opened under, the path, the side ("fsys"
\* or "backup") and the kind of the file it wraps, pos, the number of
\* directory entries read from that file, the fields initialized and isDir,
\* backupFile ("nil" or "open") with its position bpos, the argument n of the
\* last ReadDir, the entries got from all ReadDir calls so far, eof once
\* io.EOF was returned, failed once a ReadDir returned another error, calls,
\* the number of ReadDir calls, and reads, the number of them that returned
\* entries
NoHandle == [type |-> "none", name |-> <<>>, path |-> <<>>, src |-> "", kind |-> "",
             pos |-> 0, initialized |-> FALSE, isDir |-> FALSE,
             backupFile |-> "nil", bpos |-> 0, n |-> 0,
             got |-> <<>>, eof |-> FALSE, failed |-> FALSE, calls |-> 0, reads |-> 0]

\* no second BackupFS: phase is "none", "failed" or "armed" as for the first,
\* timer is "none", "waiting" or "fired", removed the regular files the
\* directory held when its timer fired
NoPeer == [phase |-> "none", timer |-> "none", removed |-> {}]

\* the number of goroutines that call into one HashFS at a time
MaxCallers == 2

Callers == 1..MaxCallers

\* a goroutine outside HashFS.hash. Inside, pc is "miss" (the read under
\* RLock found no entry), "store" (the hasher returned h, the Lock is not yet
\* taken) or "done" (hash returned h and err)
NoCall == [pc |-> "idle", name |-> <<>>, h |-> <<>>, err |-> NoErr]

NoCallers == [c \in Callers |-> NoCall]

InitHashFS ==
    /\ hashLength \in {0, MaxHashLength}
    /\ invalidErr \in {"notexist", "invalid"}
    /\ fsys \in Trees(hashLength)
    /\ hashes = <<>>
    /\ disk = NoDisk
    /\ inst = NoInst
    /\ result = NoResult
    /\ handle = NoHandle
    /\ callers = NoCallers
    /\ peer = NoPeer

\* a call runs when the caller has taken the result of the call before
Call(r) ==
    /\ result = NoResult
    /\ hashes' = r.hashes
    /\ result' = r.res
    /\ UNCHANGED <<peer, callers, fsys, invalidErr, hashLength, disk, inst, handle>>

HOpen == \E name \in Requests : Call(Open(hashes, name))
HReadFile == \E name \in Requests : Call(ReadFile(hashes, name))
HStat == \E name \in Requests : Call(Stat(hashes, name))
HHashedPath == \E name \in Requests : Call(HashedPath(hashes, name))
HGlob == \E dir \in DirRequests : Call(Glob(hashes, dir))
HReadDir == \E name \in DirRequests : Call(ReadDir(hashes, name))

\* the caller takes the result
Return ==
    /\ result # NoResult
    /\ result' = NoResult
    /\ UNCHANGED <<peer, callers, fsys, invalidErr, hashLength, hashes, disk, inst, handle>>

NextHashFS ==
    HOpen \/ HReadFile \/ HStat \/ HHashedPath \/ HGlob \/ HReadDir \/ Return

SpecHashFS == InitHashFS /\ [][NextHashFS]_vars

\* the names HashFS.hash is called with: the paths of the filesystem and an
\* absent name
HashNames == DOMAIN fsys \cup {InS(<<"z">>)}

\* HashFS.hash were it to reserve the entry of a missing name with the empty
\* hash before it computes
HashLookupReserves(c) ==
    \E name \in HashNames :
        /\ callers[c].pc = "idle"
        /\ callers' = [callers EXCEPT ![c] =
                IF name \in DOMAIN hashes
                THEN [pc |-> "done", name |-> name, h |-> hashes[name], err |-> NoErr]
                ELSE [pc |-> "miss", name |-> name, h |-> <<>>, err |-> NoErr]]
        /\ hashes' = IF name \in DOMAIN hashes THEN hashes
                     ELSE hashStore(hashes, name, <<>>).hashes
        /\ UNCHANGED <<peer, fsys, invalidErr, hashLength, disk, inst, result, handle>>

\* the goroutine c enters HashFS.hash(name) and reads s.hashes[name] under
\* the read lock: on a hit hash returns the entry
HashLookup(c) ==
    \E name \in HashNames :
        /\ callers[c].pc = "idle"
        /\ callers' = [callers EXCEPT ![c] =
                IF name \in DOMAIN hashes
                THEN [pc |-> "done", name |-> name, h |-> hashes[name], err |-> NoErr]
                ELSE [pc |-> "miss", name |-> name, h |-> <<>>, err |-> NoErr]]
        /\ UNCHANGED <<peer, fsys, invalidErr, hashLength, hashes, disk, inst, result, handle>>

\* what the goroutine does after s.fsys.Open, fr.Stat and s.hasher.Hash gave
\* r with no lock held: it returns the error or the empty hash of a
\* directory, or goes on to store the hash
hashComputed(call, r) ==
    IF call.name \in DOMAIN r.hashes
    THEN [call EXCEPT !.pc = "store", !.h = r.h]
    ELSE [call EXCEPT !.pc = "done", !.h = r.h, !.err = r.err]

\* the goroutine c opens, stats and hashes the file, holding no lock
HashCompute(c) ==
    /\ callers[c].pc = "miss"
    /\ callers' = [callers EXCEPT ![c] =
            hashComputed(@, hashOpened(<<>>, @.name, FsOpen(fsys, invalidErr, @.name)))]
    /\ UNCHANGED <<peer, fsys, invalidErr, hashLength, hashes, disk, inst, result, handle>>

\* the goroutine c writes s.hashes[name] = h under the write lock and returns
HashStore(c) ==
    /\ callers[c].pc = "store"
    /\ hashes' = hashStore(hashes, callers[c].name, callers[c].h).hashes
    /\ callers' = [callers EXCEPT ![c].pc = "done"]
    /\ UNCHANGED <<peer, fsys, invalidErr, hashLength, disk, inst, result, handle>>

\* the caller of hash takes what it returned
HashReturn(c) ==
    /\ callers[c].pc = "done"
    /\ callers' = [callers EXCEPT ![c] = NoCall]
    /\ UNCHANGED <<peer, fsys, invalidErr, hashLength, hashes, disk, inst, result, handle>>

NextHashConcurrent ==
    \E c \in Callers : HashLookup(c) \/ HashCompute(c) \/ HashStore(c) \/ HashReturn(c)

\* the ways the wrapped filesystem fails a regular file: its Open fails, the
\* Stat of the opened file fails, reading it fails
HashFaults == {"open", "stat", "read"}

\* the trees with one regular file that fails
FaultyTrees(n) ==
    UNION { { [t EXCEPT ![p].fault = f] : p \in RegularFiles(t), f \in HashFaults } :
            t \in Trees(n) }

\* a HashFS over a filesystem one file of which fails
InitHashFSFaulty ==
    /\ hashLength \in {0, MaxHashLength}
    /\ invalidErr \in {"notexist", "invalid"}
    /\ fsys \in FaultyTrees(hashLength)
    /\ hashes = <<>>
    /\ disk = NoDisk
    /\ inst = NoInst
    /\ result = NoResult
    /\ handle = NoHandle
    /\ callers = NoCallers
    /\ peer = NoPeer

SpecHashFSFaulty == InitHashFSFaulty /\ [][NextHashFS]_vars

\* goroutines calling into one HashFS over a filesystem that does not change
SpecHashConcurrent == InitHashFSFaulty /\ [][NextHashConcurrent]_vars

----------------------------------------------------------------------------
(* hashFile: the directory handle of HashFS.Open *)

\* the largest positive argument ReadDir is called with
MaxRead == 2

\* the number of ReadDir calls made on one held file
MaxCalls == 4

\* the arguments of ReadDir: all that is left (n <= 0) or at most n entries
ReadSizes == -1..MaxRead

Min(a, b) == IF a < b THEN a ELSE b

\* io.EOF
ErrEOF == Err("EOF")

\* ReadDir(n) of a wrapped directory whose entries are all, pos of them
\* read before: for n > 0 at most n entries, and io.EOF with none at the end;
\* for n <= 0 all that is left and no error
DirReadDir(all, pos, n) ==
    IF n > 0
    THEN IF pos >= Len(all) THEN [list |-> <<>>, err |-> ErrEOF, pos |-> pos]
         ELSE [list |-> SubSeq(all, pos + 1, Min(pos + n, Len(all))), err |-> NoErr,
               pos |-> Min(pos + n, Len(all))]
    ELSE [list |-> SubSeq(all, pos + 1, Len(all)), err |-> NoErr, pos |-> Len(all)]

\* what a ReadDir of a held file gives: the file after it, the cache and the result
FileRead(h, hs, err, list) ==
    [handle |-> h, hashes |-> hs, res |-> Result("File.ReadDir", h.name, err, list)]

\* the end of hashFile.ReadDir: the loop over the batch b has given g
hashFileRenamed(h, b, g) ==
    IF ~IsOk(g.err)
    THEN FileRead([h EXCEPT !.pos = b.pos, !.failed = TRUE], g.hashes, g.err, NoVal)
    ELSE FileRead([h EXCEPT !.pos = b.pos, !.got = @ \o g.list, !.reads = @ + 1],
                  g.hashes, NoErr, g.list)

\* hashFile.ReadDir after dir.ReadDir(n) returned the batch b
hashFileBatch(h, hs, b) ==
    IF ~IsOk(b.err)
    THEN FileRead([h EXCEPT !.eof = (b.err = ErrEOF), !.failed = @ \/ (b.err # ErrEOF)],
                  hs, b.err, NoVal)
    ELSE hashFileRenamed(h, b, readDirLoop(hs, h.name, b.list, 1, <<>>))

\* hashFile.ReadDir(n) of the held file h against the cache hs
hashFileReadDir(h, hs, n) ==
    IF ~h.isDir THEN FileRead([h EXCEPT !.failed = TRUE], hs, Err("notdir"), NoVal)
    ELSE hashFileBatch(h, hs,
             DirReadDir(FsReadDir(fsys, invalidErr, h.path, "fsys").list, h.pos, n))

\* newHashFile(name, f, s) for the file HashFS.Open got, with the Stat of
\* the first ReadDir
newHashFile(name, val) ==
    [NoHandle EXCEPT !.type = "hash", !.name = name, !.path = val.path, !.src = "fsys",
                     !.kind = val.node.kind, !.initialized = TRUE,
                     !.isDir = (val.node.kind = "dir")]

\* a caller opens a name and holds the file
HashFileOpened(name, o) ==
    /\ hashes' = o.hashes
    /\ result' = o.res
    /\ handle' = IF IsOk(o.res.err) THEN newHashFile(name, o.res.val) ELSE handle

HashFileOpen ==
    \E name \in DirRequests :
        /\ handle = NoHandle /\ result = NoResult
        /\ HashFileOpened(name, Open(hashes, name))
        /\ UNCHANGED <<peer, callers, fsys, invalidErr, hashLength, disk, inst>>

\* the caller calls ReadDir(n) on the file it holds
HashFileRead(r, n) ==
    /\ hashes' = r.hashes
    /\ result' = r.res
    /\ handle' = [r.handle EXCEPT !.n = n, !.calls = @ + 1]

HashFileReadDir ==
    \E n \in ReadSizes :
        /\ handle.type = "hash" /\ result = NoResult
        /\ handle.calls < MaxCalls
        /\ HashFileRead(hashFileReadDir(handle, hashes, n), n)
        /\ UNCHANGED <<peer, callers, fsys, invalidErr, hashLength, disk, inst>>

\* the caller closes the file
FileClose ==
    /\ handle # NoHandle /\ result = NoResult
    /\ handle' = NoHandle
    /\ UNCHANGED <<peer, callers, fsys, invalidErr, hashLength, hashes, disk, inst, result>>

NextHashFile == HashFileOpen \/ HashFileReadDir \/ FileClose \/ Return

SpecHashFile == InitHashFS /\ [][NextHashFile]_vars

\* the trees one regular file of which is a symbolic link to nothing: the
\* directory lists it and opening it reports not-exist
DanglingTrees(n) ==
    UNION { { [t EXCEPT ![p].fault = "dangling"] : p \in RegularFiles(t) } : t \in Trees(n) }

\* a HashFS over a filesystem that holds a symbolic link to nothing
InitHashFSDangling ==
    /\ hashLength \in {0, MaxHashLength}
    /\ invalidErr \in {"notexist", "invalid"}
    /\ fsys \in DanglingTrees(hashLength)
    /\ hashes = <<>>
    /\ disk = NoDisk
    /\ inst = NoInst
    /\ result = NoResult
    /\ handle = NoHandle
    /\ callers = NoCallers
    /\ peer = NoPeer

SpecHashFileDangling == InitHashFSDangling /\ [][NextHashFile]_vars

----------------------------------------------------------------------------
(* Properties of HashFS, under SpecHashFS *)

\* the hasher's token of the content of the regular file p
ContentHash(p) == MD5Hash(fsys[p].data, hashLength)

\* the content a successful Open or ReadFile handed out
ReturnedData == IF result.op = "Open" THEN result.val.node.data ELSE result.val.data

\* C1: Open and ReadFile of the public name of a regular file p with a
\* non-empty content hash (p with the hash before its last extension)
\* succeed and return the content of p.
C1_PublicNameOpens ==
    \A p \in RegularFiles(fsys) :
        ( /\ result.op \in {"Open", "ReadFile"}
          /\ ContentHash(p) # <<>>
          /\ result.arg = hashedPath(p, ContentHash(p)) )
        => ( /\ IsOk(result.err)
             /\ result.val.path = p
             /\ ReturnedData = fsys[p].data )

C1_Witness ==
    /\ result.op = "ReadFile"
    /\ IsOk(result.err)
    /\ \E p \in RegularFiles(fsys) :
          /\ ContentHash(p) # <<>>
          /\ result.arg = hashedPath(p, ContentHash(p))
          /\ result.val.data = fsys[p].data

\* C2: a name that resolves to itself with a non-empty hash (a hashed file
\* asked for by its bare name) is not-found for Open, ReadFile and Stat.
C2_BareNameNotFound ==
    ( /\ result.op \in {"Open", "ReadFile", "Stat"}
      /\ LET cn == canonicalName(hashes, result.arg)
         IN  IsOk(cn.err) /\ cn.name = result.arg /\ cn.hash # <<>> )
    => IsNotExist(result.err)

C2_Witness ==
    /\ result.op = "Stat"
    /\ result.arg \in RegularFiles(fsys)
    /\ splitName(result.arg).hashFromName = <<>>
    /\ ContentHash(result.arg) # <<>>
    /\ IsNotExist(result.err)

\* Open was called with a name that carries a token, the name without the
\* token is a regular file, and the token is not the hash of that file
StaleTokenOpened ==
    /\ result.op = "Open"
    /\ LET sn == splitName(result.arg)
       IN  /\ sn.hashFromName # <<>>
           /\ sn.canonicalName \in RegularFiles(fsys)
           /\ sn.hashFromName # ContentHash(sn.canonicalName)

OpenedLiteral ==
    /\ IsOk(result.err)
    /\ result.val.path = result.arg
    /\ result.val.node.data = fsys[result.arg].data

\* C3 as stated: Open of a name with a stale token is not-found unless the
\* literal name is an existing file, and then it returns the literal file.
C3_Original ==
    StaleTokenOpened =>
        IF result.arg \in RegularFiles(fsys) THEN OpenedLiteral
        ELSE IsNotExist(result.err)

\* C3, the hash of the literal file taken into account: Open of a name
\* with a stale token is not-found unless the
\* literal name is an existing file whose own content hash is the token,
\* and then it returns the literal file.
C3_StaleToken ==
    StaleTokenOpened =>
        IF /\ result.arg \in RegularFiles(fsys)
           /\ ContentHash(result.arg) = splitName(result.arg).hashFromName
        THEN OpenedLiteral
        ELSE IsNotExist(result.err)

C3_Witness ==
    /\ StaleTokenOpened
    /\ result.arg \in RegularFiles(fsys)
    /\ OpenedLiteral

\* the round trip of the regular file c: its public name resolves to c and its hash
RoundTrip(c) ==
    LET cn == canonicalName(hashes, hashedPath(c, ContentHash(c)))
    IN  IsOk(cn.err) /\ cn.name = c /\ cn.hash = ContentHash(c)

C5_Idempotent ==
    (result.op = "HashedPath" /\ IsOk(result.err) /\ hashLength > 0) =>
        LET again == HashedPath(hashes, result.val).res
        IN  IsOk(again.err) /\ again.val = result.val

\* the resolution of the underlying path e: its public name or the error
PublicName(e) == HashedPath(hashes, e).res

Resolves(e) == IsOk(PublicName(e).err)

\* the underlying paths whose resolution fails with another error than not-found
OtherErrors(paths) ==
    { PublicName(paths[i]).err : i \in { j \in 1..Len(paths) :
          ~Resolves(paths[j]) /\ ~IsNotExist(PublicName(paths[j]).err) } }

\* HashFS.Glob returned the public names of the matches that resolve, or
\* failed with the error of a match whose resolution is no not-found
GlobAsClaimed ==
    LET under == FsGlob(fsys, invalidErr, result.arg)
        kept == SelectSeq(under, Resolves)
    IN  IF OtherErrors(under) = {}
        THEN /\ IsOk(result.err)
             /\ result.val = [i \in 1..Len(kept) |-> PublicName(kept[i]).val]
        ELSE result.err \in OtherErrors(under)

EntryResolves(e) == Resolves(e.path)

\* HashFS.ReadDir returned the entries that resolve under their public names,
\* or failed with the error of an entry whose resolution is no not-found
ReadDirAsClaimed ==
    LET under == FsReadDir(fsys, invalidErr, result.arg, "fsys")
        paths == [i \in 1..Len(under.list) |-> under.list[i].path]
        kept == SelectSeq(under.list, EntryResolves)
    IN  IsOk(under.err) =>
            IF OtherErrors(paths) = {}
            THEN /\ IsOk(result.err)
                 /\ result.val = [i \in 1..Len(kept) |->
                        [kept[i] EXCEPT !.name = PathBase(PublicName(kept[i].path).val)]]
            ELSE result.err \in OtherErrors(paths)

\* C6: ReadDir and Glob return every underlying entry that resolves under
\* its public name, leave out the entries whose resolution is not-found, and
\* fail with the error of any other failed resolution.
C6_Listing ==
    /\ result.op = "Glob" => GlobAsClaimed
    /\ result.op = "ReadDir" => ReadDirAsClaimed

----------------------------------------------------------------------------
(* The MD5Hasher alone *)

\* the strings IsHash is asked about: the digests cut to the hasher's
\* length, one character shorter and longer, and with a letter that is no
\* hexadecimal digit in front
HashCandidates ==
    UNION { { SubSeq(Md5Hex(c), 1, k) : k \in {hashLength - 1, hashLength, hashLength + 1}
                                              \cap 0..Len(Md5Hex(c)) }
            \cup { <<"z">> \o SubSeq(Md5Hex(c), 2, k) : k \in {hashLength} \cap 1..Len(Md5Hex(c)) }
          : c \in Contents }

InitHasher ==
    /\ hashLength \in 0..MaxHasherLength
    /\ invalidErr = "notexist"
    /\ fsys = <<>>
    /\ hashes = <<>>
    /\ disk = NoDisk
    /\ inst = NoInst
    /\ result = NoResult
    /\ handle = NoHandle
    /\ callers = NoCallers
    /\ peer = NoPeer

\* a call of MD5Hasher.Hash on a reader of the content c
HasherHash ==
    \E c \in Contents :
        /\ result' = Result("Hash", c, NoErr, MD5Hash(c, hashLength))
        /\ UNCHANGED <<peer, callers, fsys, invalidErr, hashLength, hashes, disk, inst, handle>>

\* a call of MD5Hasher.IsHash
HasherIsHash ==
    \E h \in HashCandidates :
        /\ result' = Result("IsHash", h, NoErr, MD5IsHash(h, hashLength))
        /\ UNCHANGED <<peer, callers, fsys, invalidErr, hashLength, hashes, disk, inst, handle>>

NextHasher == HasherHash \/ HasherIsHash

SpecHasher == InitHasher /\ [][NextHasher]_vars

\* C7: for every content and every MD5Hasher of a length up to the length of
\* the hex-encoded digest, Hash returns a token of exactly that length which
\* IsHash accepts.
C7_TokenLength ==
    (result.op = "Hash" /\ hashLength <= Len(Md5Hex(result.arg))) =>
        /\ Len(result.val) = hashLength
        /\ MD5IsHash(result.val, hashLength)

----------------------------------------------------------------------------
(* BackupFS *)

\* filepath.Clean(dir) of a slash-separated path: the elements "" and "."
\* dropped, "x/.." cancelled, ".." kept in front of a relative path
RECURSIVE cleanParts(_, _, _)
cleanParts(parts, rooted, out) ==
    IF parts = <<>> THEN out
    ELSE LET e == Head(parts)
         IN  IF e = <<>> \/ e = <<".">> THEN cleanParts(Tail(parts), rooted, out)
             ELSE IF e = <<".", ".">>
             THEN IF out # <<>> /\ out[Len(out)] # <<".", ".">>
                  THEN cleanParts(Tail(parts), rooted, SubSeq(out, 1, Len(out) - 1))
                  ELSE IF rooted THEN cleanParts(Tail(parts), rooted, out)
                  ELSE cleanParts(Tail(parts), rooted, Append(out, e))
             ELSE cleanParts(Tail(parts), rooted, Append(out, e))

RECURSIVE joinSlash(_)
joinSlash(parts) ==
    IF parts = <<>> THEN <<>>
    ELSE IF Len(parts) = 1 THEN parts[1]
    ELSE parts[1] \o <<"/">> \o joinSlash(Tail(parts))

PathClean(dir) ==
    LET rooted == dir # <<>> /\ dir[1] = "/"
        body == joinSlash(cleanParts(StrSplit(dir, "/"), rooted, <<>>))
    IN  IF rooted THEN <<"/">> \o body
        ELSE IF body = <<>> THEN <<".">> ELSE body

\* strings.HasSuffix(s, suffix)
HasSuffix(s, suffix) ==
    /\ Len(s) >= Len(suffix)
    /\ SubSeq(s, Len(s) - Len(suffix) + 1, Len(s)) = suffix

\* validateDir were it to leave out the test for a path that ends in "/.."
validateDirNoSuffix(dir) ==
    dir \notin { <<>>, <<".">>, <<".", ".">>, <<"/">>, <<".", "/">>, <<"/", ".">> }

\* validateDir(dir)
validateDir(dir) ==
    /\ dir \notin { <<>>, <<".">>, <<".", ".">>, <<"/">>, <<".", "/">>, <<"/", ".">> }
    /\ ~HasSuffix(dir, <<"/", ".", ".">>)

\* the permission bits with the owner's write bit (0o200) set
\* perm | permUserWrite
orUserWrite(perm) == IF (perm \div 128) % 2 = 1 THEN perm ELSE perm + 128

\* the paths of fs.WalkDir(fsys, dir) in the order of the walk
RECURSIVE walkDir(_, _)
walkDir(fs, p) ==
    IF fs[p].kind # "dir" THEN <<p>>
    ELSE LET kids == SortedSeq(Children(fs, p))
             RECURSIVE all(_)
             all(i) == IF i > Len(kids) THEN <<>> ELSE walkDir(fs, kids[i]) \o all(i + 1)
         IN  <<p>> \o all(1)

Put(d, p, node) == [q \in DOMAIN d \cup {p} |-> IF q = p THEN node ELSE d[q]]

\* the callback of BackupFS.copy for the path p of the walk: the directory
\* after it and the error
copyOne(fs, d, p) ==
    IF fs[p].kind = "dir"
    THEN IF p \in DOMAIN d /\ d[p].kind # "dir"
         THEN [disk |-> d, err |-> Wrap("create directory", Err("notdir"))]
         ELSE IF p \in DOMAIN d THEN [disk |-> d, err |-> NoErr]
         ELSE [disk |-> Put(d, p, DirNode), err |-> NoErr]
    ELSE IF fs[p].fault = "open"
    THEN [disk |-> d, err |-> Wrap("open file", Err("permission"))]
    ELSE IF p \in DOMAIN d /\ d[p].kind = "dir"
    THEN [disk |-> d, err |-> Wrap("create backup file", Err("isdir"))]
    ELSE IF p \in DOMAIN d /\ d[p].perm # orUserWrite(d[p].perm)
    THEN [disk |-> d, err |-> Wrap("create backup file", Err("permission"))]
    ELSE LET perm == IF p \in DOMAIN d THEN d[p].perm ELSE orUserWrite(fs[p].perm)
         IN  IF fs[p].fault = "read"
             THEN [disk |-> Put(d, p, [kind |-> "file", data |-> "", fault |-> "none",
                                       perm |-> perm]),
                   err |-> Wrap("copy file data", Err("io"))]
             ELSE [disk |-> Put(d, p, [kind |-> "file", data |-> fs[p].data,
                                       fault |-> "none", perm |-> perm]),
                   err |-> NoErr]

RECURSIVE copyWalk(_, _, _, _)
copyWalk(fs, d, paths, i) ==
    IF i > Len(paths) THEN [disk |-> d, err |-> NoErr]
    ELSE LET r == copyOne(fs, d, paths[i])
         IN  IF ~IsOk(r.err) THEN r ELSE copyWalk(fs, r.disk, paths, i + 1)

\* BackupFS.copy were it to empty the directory before it copies
copyIntoEmptied(fs, d) == copyWalk(fs, (dot :> DirNode), walkDir(fs, dot), 1)

\* BackupFS.copy(dir) of the filesystem fs into the directory with content d
copy(fs, d) ==
    copyWalk(fs, IF d = <<>> THEN (dot :> DirNode) ELSE d, walkDir(fs, dot), 1)

\* sort.SliceStable by name: a stable insertion sort
RECURSIVE insertByName(_, _)
insertByName(sorted, e) ==
    IF sorted = <<>> THEN <<e>>
    ELSE IF StrLess(e.name, sorted[Len(sorted)].name)
         THEN Append(insertByName(SubSeq(sorted, 1, Len(sorted) - 1), e), sorted[Len(sorted)])
         ELSE Append(sorted, e)

RECURSIVE sortStableByName(_)
sortStableByName(r) ==
    IF r = <<>> THEN <<>>
    ELSE insertByName(sortStableByName(SubSeq(r, 1, Len(r) - 1)), r[Len(r)])

\* the loop of uniqueDirEntry over e[1:] from the (0-based) index i on, the
\* slice e being rewritten in place and n entries kept so far
RECURSIVE uniqueLoop(_, _, _)
uniqueLoop(e, i, n) ==
    IF i + 2 > Len(e) THEN SubSeq(e, 1, n)
    ELSE IF e[i + 2].name # e[i + 1].name
         THEN uniqueLoop([e EXCEPT ![n + 1] = e[i + 2]], i + 1, n + 1)
         ELSE uniqueLoop(e, i + 1, n)

\* uniqueDirEntry(e) were it to keep the last entry of every name
uniqueDirEntryKeepLast(e) ==
    LET keep == { i \in 1..Len(e) : i = Len(e) \/ e[i + 1].name # e[i].name }
        RECURSIVE pick(_)
        pick(i) == IF i > Len(e) THEN <<>>
                   ELSE IF i \in keep THEN <<e[i]>> \o pick(i + 1) ELSE pick(i + 1)
    IN  pick(1)

\* uniqueDirEntry(e)
uniqueDirEntry(e) == IF Len(e) <= 1 THEN e ELSE uniqueLoop(e, 0, 1)

\* uniqueStrings(s): the same loop over strings
RECURSIVE uniqueStringsLoop(_, _, _)
uniqueStringsLoop(e, i, n) ==
    IF i + 2 > Len(e) THEN SubSeq(e, 1, n)
    ELSE IF e[i + 2] # e[i + 1]
         THEN uniqueStringsLoop([e EXCEPT ![n + 1] = e[i + 2]], i + 1, n + 1)
         ELSE uniqueStringsLoop(e, i + 1, n)

uniqueStrings(e) == IF Len(e) <= 1 THEN e ELSE uniqueStringsLoop(e, 0, 1)

\* sort.Strings: an insertion sort
RECURSIVE insertString(_, _)
insertString(sorted, e) ==
    IF sorted = <<>> THEN <<e>>
    ELSE IF StrLess(e, sorted[Len(sorted)])
         THEN Append(insertString(SubSeq(sorted, 1, Len(sorted) - 1), e), sorted[Len(sorted)])
         ELSE Append(sorted, e)

RECURSIVE sortStrings(_)
sortStrings(r) ==
    IF r = <<>> THEN <<>>
    ELSE insertString(sortStrings(SubSeq(r, 1, Len(r) - 1)), r[Len(r)])

\* the filesystem of the backup directory: os.DirFS(dir)
Backup(d, name) == FsOpen(d, "invalid", name)

\* BackupFS.Open(name)
BOpen(fs, d, name) ==
    LET o == FsOpen(fs, invalidErr, name)
        b == Backup(d, name)
    IN  IF IsOk(o.err)
        THEN Result("Open", name, NoErr, [name |-> name, src |-> "fsys", node |-> o.node])
        ELSE IF IsNotExist(o.err)
        THEN IF IsOk(b.err)
             THEN Result("Open", name, NoErr,
                         [name |-> name, src |-> "backup", node |-> b.node])
             ELSE Result("Open", name, b.err, NoVal)
        ELSE Result("Open", name, o.err, NoVal)

\* BackupFS.Glob were it to ask the backup only when the primary matches nothing
BGlobFallback(fs, d, dir) ==
    IF FsGlob(fs, invalidErr, dir) # <<>>
    THEN Result("Glob", dir, NoErr, FsGlob(fs, invalidErr, dir))
    ELSE Result("Glob", dir, NoErr, FsGlob(d, "invalid", dir))

\* BackupFS.Glob(dir + "/*")
BGlob(fs, d, dir) ==
    LET r == FsGlob(fs, invalidErr, dir) \o FsGlob(d, "invalid", dir)
    IN  Result("Glob", dir, NoErr, uniqueStrings(sortStrings(r)))

\* BackupFS.ReadDir(name)
BReadDir(fs, d, name) ==
    LET r == FsReadDir(fs, invalidErr, name, "fsys")
        rc == FsReadDir(d, "invalid", name, "backup")
    IN  IF ~IsOk(r.err) /\ ~IsNotExist(r.err) THEN Result("ReadDir", name, r.err, NoVal)
        ELSE IF ~IsOk(rc.err) /\ (~IsNotExist(rc.err) \/ IsNotExist(r.err))
        THEN Result("ReadDir", name, rc.err, NoVal)
        ELSE Result("ReadDir", name, NoErr,
                    uniqueDirEntry(sortStableByName(r.list \o rc.list)))

\* BackupFS.ReadFile(name) were it to ask the backup after any error of the
\* primary
BReadFileAnyError(fs, d, name) ==
    LET r == FsReadFile(fs, invalidErr, name)
        rc == FsReadFile(d, "invalid", name)
    IN  IF IsOk(r.err)
        THEN Result("ReadFile", name, NoErr, [src |-> "fsys", data |-> r.data])
        ELSE IF IsOk(rc.err)
        THEN Result("ReadFile", name, NoErr, [src |-> "backup", data |-> rc.data])
        ELSE Result("ReadFile", name, rc.err, NoVal)

\* BackupFS.ReadFile(name)
BReadFile(fs, d, name) ==
    LET r == FsReadFile(fs, invalidErr, name)
        rc == FsReadFile(d, "invalid", name)
    IN  IF IsOk(r.err)
        THEN Result("ReadFile", name, NoErr, [src |-> "fsys", data |-> r.data])
        ELSE IF IsNotExist(r.err)
        THEN IF IsOk(rc.err)
             THEN Result("ReadFile", name, NoErr, [src |-> "backup", data |-> rc.data])
             ELSE Result("ReadFile", name, rc.err, NoVal)
        ELSE Result("ReadFile", name, r.err, NoVal)

\* BackupFS.Stat(name) were it to ask the backup first
BStatBackupFirst(fs, d, name) ==
    LET r == FsStat(fs, invalidErr, name)
        rc == FsStat(d, "invalid", name)
    IN  IF IsOk(rc.err)
        THEN Result("Stat", name, NoErr, [src |-> "backup", node |-> rc.node])
        ELSE IF IsOk(r.err)
        THEN Result("Stat", name, NoErr, [src |-> "fsys", node |-> r.node])
        ELSE Result("Stat", name, r.err, NoVal)

\* BackupFS.Stat(name)
BStat(fs, d, name) ==
    LET r == FsStat(fs, invalidErr, name)
        rc == FsStat(d, "invalid", name)
    IN  IF IsOk(r.err)
        THEN Result("Stat", name, NoErr, [src |-> "fsys", node |-> r.node])
        ELSE IF IsNotExist(r.err)
        THEN IF IsOk(rc.err)
             THEN Result("Stat", name, NoErr, [src |-> "backup", node |-> rc.node])
             ELSE Result("Stat", name, rc.err, NoVal)
        ELSE Result("Stat", name, r.err, NoVal)

----------------------------------------------------------------------------
(* The filesystems BackupFS is tried on *)

\* the regular files of the trees
BackupNames == { InS(<<"a">>), InS(<<"b">>), InS(<<"c">>) }

\* a tree with the directory ".", the directory "s" if it holds anything,
\* the directory "s/u" if withU, and the regular files of the function files
BackupTree(files, withU) ==
    [p \in {dot} \cup (IF withU \/ DOMAIN files # {} THEN {dS} ELSE {})
                 \cup (IF withU THEN {dU} ELSE {}) \cup DOMAIN files |->
        IF p \in DOMAIN files THEN files[p] ELSE DirNode]

\* the primary filesystems
PrimaryTrees ==
    { BackupTree(files, withU) :
        files \in UNION { [S -> FileChoices] :
                    S \in { X \in SUBSET BackupNames : Cardinality(X) <= MaxFiles } },
        withU \in BOOLEAN }

\* the permission bits of the files of an earlier run's primary filesystem:
\* 0o444 and 0o400
EarlierPerms == {292, 256}

\* the ways a file of the primary fails the copy: its Open fails, reading it
\* fails
CopyFaults == {"open", "read"}

\* the primary filesystems one regular file of which fails the copy
FaultyPrimaryTrees ==
    UNION { { [t EXCEPT ![p].fault = f] : p \in RegularFiles(t), f \in CopyFaults } :
            t \in PrimaryTrees }

\* the primary filesystems of an earlier run, whose files all hold "b"
EarlierTrees ==
    { BackupTree([p \in S |-> [FileNode("b", "none") EXCEPT !.perm = m]], FALSE) :
        S \in { X \in SUBSET BackupNames : Cardinality(X) <= MaxFiles },
        m \in EarlierPerms }

\* the destination directories NewBackupFS is given: spellings of the
\* directory "t" and the directories it rejects
DirArgs ==
    { <<"t">>, <<"t", "/">>, <<".", "/", "t">>,
      <<>>, <<".">>, <<".", ".">>, <<"/">>, <<"t", "/", ".", ".">>,
      <<".", ".", "/", ".", ".">>,
      <<"t", "/", ".", ".", "/", ".", ".">> }

\* the names callers ask a BackupFS for: the files, the directories, an
\* absent name and an invalid name
BackupRequests == BackupNames \cup {dot, dS, dU, InS(<<"z">>), <<"s", "/">>}

\* the directories callers list
BackupDirRequests == {dot, dS, dU, InS(<<"z">>), InS(<<"a">>)}

\* the backup directory is absent or holds what an earlier run copied into it
InitBackupFS ==
    /\ hashLength = 0
    /\ hashes = <<>>
    /\ invalidErr \in {"notexist", "invalid"}
    /\ fsys \in PrimaryTrees \cup FaultyPrimaryTrees
    /\ disk \in {NoDisk} \cup { copy(old, NoDisk).disk : old \in EarlierTrees }
    /\ inst = NoInst
    /\ result = NoResult
    /\ handle = NoHandle
    /\ callers = NoCallers
    /\ peer = NoPeer

\* s.copy(dir), the first os.MkdirAll(dir) of which returns mkdirErr
copyDir(fs, d, mkdirErr) ==
    IF IsOk(mkdirErr) THEN copy(fs, d)
    ELSE [disk |-> d, err |-> Wrap("create backup data directory", mkdirErr)]

\* NewBackupFS were it to start the goroutine before it looks at the error
\* of the copy
constructedTimerFirst(dir, err) ==
    IF IsOk(err)
    THEN [inst EXCEPT !.phase = "armed", !.timer = "waiting", !.dir = dir]
    ELSE [inst EXCEPT !.phase = "failed", !.timer = "waiting", !.dir = dir,
                      !.err = Wrap("copy files to the backup directory", err)]

\* the end of NewBackupFS, s.copy(dir) having returned err: the error, or
\* the instance with its goroutine started
constructed(dir, err) ==
    IF IsOk(err)
    THEN [inst EXCEPT !.phase = "armed", !.timer = "waiting", !.dir = dir]
    ELSE [inst EXCEPT !.phase = "failed", !.dir = dir,
                      !.err = Wrap("copy files to the backup directory", err)]

\* NewBackupFS(fsys, dir, ttl)
NewBackupFS ==
    \E dir \in DirArgs :
        /\ inst.phase = "none"
        /\ IF ~validateDir(PathClean(dir))
           THEN /\ inst' = [inst EXCEPT !.phase = "failed", !.dir = PathClean(dir),
                                        !.err = Err("unsupported directory")]
                /\ disk' = disk
           ELSE \E mkdirErr \in {NoErr, Err("permission")} :
                    /\ disk' = copyDir(fsys, disk, mkdirErr).disk
                    /\ inst' = constructed(PathClean(dir), copyDir(fsys, disk, mkdirErr).err)
        /\ UNCHANGED <<peer, callers, fsys, invalidErr, hashLength, hashes, result, handle>>

\* a call on the constructed BackupFS
BackupCall(r) ==
    /\ inst.phase \in {"armed", "cleaned"}
    /\ result = NoResult
    /\ result' = r
    /\ UNCHANGED <<peer, callers, fsys, invalidErr, hashLength, hashes, disk, inst, handle>>

BackupOpen == \E name \in BackupRequests : BackupCall(BOpen(fsys, disk, name))
BackupReadFile == \E name \in BackupRequests : BackupCall(BReadFile(fsys, disk, name))
BackupStat == \E name \in BackupRequests : BackupCall(BStat(fsys, disk, name))
BackupGlob == \E dir \in BackupDirRequests : BackupCall(BGlob(fsys, disk, dir))
BackupReadDir == \E name \in BackupDirRequests : BackupCall(BReadDir(fsys, disk, name))

\* the timer of NewBackupFS were it to fire and remove nothing
TimerFireRemovesNothing ==
    /\ inst.phase = "armed" /\ inst.timer = "waiting"
    /\ result = NoResult
    /\ inst' = [inst EXCEPT !.timer = "removed", !.removed = DOMAIN disk,
                            !.removals = @ + 1]
    /\ UNCHANGED <<peer, callers, fsys, invalidErr, hashLength, hashes, result, disk, handle>>

\* the timer of NewBackupFS fires: os.RemoveAll(dir) removes the directory or
\* fails. It fires between two calls: a call reads each side once, before or
\* after the removal
TimerFire ==
    /\ inst.phase = "armed" /\ inst.timer = "waiting"
    /\ result = NoResult
    /\ \E removeErr \in {NoErr, Err("permission")} :
        /\ disk' = IF IsOk(removeErr) THEN NoDisk ELSE disk
        /\ inst' = [inst EXCEPT !.timer = "removed", !.removeErr = removeErr,
                                !.removed = DOMAIN disk, !.removals = @ + 1]
    /\ UNCHANGED <<peer, callers, fsys, invalidErr, hashLength, hashes, result, handle>>

\* the timer goroutine were it to leave cleaningErr as it is
TimerRecordNothing ==
    /\ inst.timer = "removed"
    /\ inst' = [inst EXCEPT !.timer = "recorded"]
    /\ UNCHANGED <<peer, callers, fsys, invalidErr, hashLength, hashes, result, disk, handle>>

\* the timer goroutine stores the error of os.RemoveAll in s.cleaningErr
TimerRecord ==
    /\ inst.timer = "removed"
    /\ inst' = [inst EXCEPT !.timer = "recorded", !.cleaningErr = inst.removeErr]
    /\ UNCHANGED <<peer, callers, fsys, invalidErr, hashLength, hashes, result, disk, handle>>

\* the timer goroutine were it to end without closing the channel
TimerEndsSilently ==
    /\ inst.timer = "recorded"
    /\ result = NoResult
    /\ inst' = [inst EXCEPT !.timer = "done"]
    /\ UNCHANGED <<peer, callers, fsys, invalidErr, hashLength, hashes, result, disk, handle>>

\* the timer goroutine closes the channel s.cleaned and ends; a caller that
\* sees the channel closed calls after this step
TimerClose ==
    /\ inst.timer = "recorded"
    /\ result = NoResult
    /\ inst' = [inst EXCEPT !.timer = "done", !.phase = "cleaned", !.cleaned = TRUE,
                            !.closes = @ + 1]
    /\ UNCHANGED <<peer, callers, fsys, invalidErr, hashLength, hashes, result, disk, handle>>

\* the primary filesystem, any fs.FS, starts to refuse one of its regular
\* files after the construction: opening it fails with a permission error
PrimaryFails ==
    \E p \in DOMAIN fsys :
        /\ inst.phase = "armed" /\ inst.timer = "waiting"
        /\ result = NoResult
        /\ fsys[p].kind = "file"
        /\ \A q \in DOMAIN fsys : fsys[q].fault = "none"
        /\ fsys' = [fsys EXCEPT ![p].fault = "open"]
        /\ UNCHANGED <<peer, callers, invalidErr, hashLength, hashes, disk, inst, result, handle>>

NextBackupFS ==
    \/ NewBackupFS
    \/ PrimaryFails
    \/ BackupOpen \/ BackupReadFile \/ BackupStat \/ BackupGlob \/ BackupReadDir
    \/ TimerFire \/ TimerRecord \/ TimerClose
    \/ Return

SpecBackupFS == InitBackupFS /\ [][NextBackupFS]_vars

\* NewBackupFS(fsys, dir, ttl) once more, on the directory of the first
\* instance and with a shorter ttl
NewPeerBackupFS ==
    /\ inst.phase = "armed" /\ inst.timer = "waiting"
    /\ peer.phase = "none"
    /\ result = NoResult
    /\ disk' = copy(fsys, disk).disk
    /\ peer' = IF IsOk(copy(fsys, disk).err)
               THEN [peer EXCEPT !.phase = "armed", !.timer = "waiting"]
               ELSE [peer EXCEPT !.phase = "failed"]
    /\ UNCHANGED <<callers, fsys, invalidErr, hashLength, hashes, inst, result, handle>>

\* the timer of the second instance fires: its goroutine calls
\* os.RemoveAll(dir) on the directory both instances use
PeerTimerFire ==
    /\ peer.timer = "waiting"
    /\ result = NoResult
    /\ \E removeErr \in {NoErr, Err("permission")} :
        /\ disk' = IF IsOk(removeErr) THEN NoDisk ELSE disk
        /\ peer' = [peer EXCEPT !.timer = "fired",
                                !.removed = IF IsOk(removeErr) THEN RegularFiles(disk) ELSE {}]
    /\ UNCHANGED <<callers, fsys, invalidErr, hashLength, hashes, inst, result, handle>>

\* two instances on one directory, their timers firing in either order
NextBackupFSShared ==
    \/ NewBackupFS
    \/ NewPeerBackupFS \/ PeerTimerFire
    \/ BackupReadFile
    \/ TimerFire \/ TimerRecord \/ TimerClose
    \/ Return

SpecBackupFSShared == InitBackupFS /\ [][NextBackupFSShared]_vars

\* the goroutine of NewBackupFS is scheduled fairly. Its closure holds s, so
\* s stays reachable while it runs, the finalizer cannot close done before
\* the timer fires, and the select can only take the case of t.C. No caller
\* holds the goroutine up: a step of it that the model places between two
\* calls is taken once calls return (strong fairness), and a call returns.
TimerFairness ==
    /\ SF_vars(TimerFire)
    /\ WF_vars(TimerRecord)
    /\ SF_vars(TimerClose)
    /\ WF_vars(Return)

\* the backup directory does not exist before the construction
InitBackupFSLive == InitBackupFS /\ disk = NoDisk

SpecBackupFSLive == InitBackupFSLive /\ [][NextBackupFS]_vars /\ TimerFairness

----------------------------------------------------------------------------
(* backupFile: the directory handle of BackupFS.Open *)

\* the entries an open directory of the filesystem fs gives at the path name;
\* a directory removed under its open file gives none
HeldEntries(fs, name, src) ==
    IF name \in DOMAIN fs /\ fs[name].kind = "dir"
    THEN Entries(fs, SortedSeq(Children(fs, name)), src).list
    ELSE <<>>

\* the filesystem of the side src
Side(src) == IF src = "fsys" THEN fsys ELSE disk

\* the first ReadDir of a backupFile: f.File.Stat() and f.backupFS.Open(f.name)
backupFileInit(h, d) ==
    IF h.initialized THEN h
    ELSE [h EXCEPT !.initialized = TRUE, !.isDir = (h.kind = "dir"),
                   !.backupFile = IF IsOk(Backup(d, h.name).err) THEN "open" ELSE "nil"]

\* backupFile.ReadDir were it to read the wrapped file only
backupFileReadPrimaryOnly(h, r, rc) ==
    FileRead([h EXCEPT !.pos = r.pos, !.got = @ \o r.list, !.reads = @ + 1],
             hashes, NoErr, r.list)

\* the end of backupFile.ReadDir: both files were read, r from the wrapped
\* file and rc from the file of the backup directory
backupFileMerged(h, r, rc) ==
    FileRead([h EXCEPT !.pos = r.pos, !.bpos = rc.pos,
                       !.got = @ \o uniqueDirEntry(sortStableByName(r.list \o rc.list)),
                       !.reads = @ + 1],
             hashes, NoErr, uniqueDirEntry(sortStableByName(r.list \o rc.list)))

\* backupFile.ReadDir(n) of the initialized file h, r being dir.ReadDir(n) of
\* the wrapped file
backupFileRead(h, d, n, r) ==
    IF ~h.isDir THEN FileRead([h EXCEPT !.failed = TRUE], hashes, Err("notdir"), NoVal)
    ELSE IF n >= 0
    THEN FileRead([h EXCEPT !.failed = TRUE], hashes, Err("unsupported"), NoVal)
    ELSE IF h.backupFile = "nil"
    THEN FileRead([h EXCEPT !.pos = r.pos, !.got = @ \o r.list, !.reads = @ + 1],
                  hashes, NoErr, r.list)
    ELSE backupFileMerged(h, r, DirReadDir(HeldEntries(d, h.name, "backup"), h.bpos, n))

\* backupFile.ReadDir(n) of the held file h, the backup directory holding d
backupFileReadDir(h, d, n) ==
    backupFileRead(backupFileInit(h, d), d, n,
                   DirReadDir(HeldEntries(Side(h.src), h.name, h.src), h.pos, n))

\* newBackupFile(name, f, s.backup) for the file BackupFS.Open got
newBackupFile(name, val) ==
    [NoHandle EXCEPT !.type = "backup", !.name = name, !.path = name, !.src = val.src,
                     !.kind = val.node.kind]

\* a caller opens a name on the BackupFS and holds the file
BackupFileOpened(name, r) ==
    /\ result' = r
    /\ handle' = IF IsOk(r.err) THEN newBackupFile(name, r.val) ELSE handle

BackupFileOpen ==
    \E name \in BackupDirRequests :
        /\ inst.phase \in {"armed", "cleaned"}
        /\ handle = NoHandle /\ result = NoResult
        /\ BackupFileOpened(name, BOpen(fsys, disk, name))
        /\ UNCHANGED <<peer, callers, fsys, invalidErr, hashLength, hashes, disk, inst>>

\* the number of ReadDir calls made on one held backupFile
MaxBackupCalls == 2

\* the caller calls ReadDir(n) on the file it holds
BackupFileReadDir ==
    \E n \in ReadSizes :
        /\ handle.type = "backup" /\ result = NoResult
        /\ handle.calls < MaxBackupCalls
        /\ HashFileRead(backupFileReadDir(handle, disk, n), n)
        /\ UNCHANGED <<peer, callers, fsys, invalidErr, hashLength, disk, inst>>

\* the errors the Close of an underlying file returns
CloseErrs == {NoErr, Err("io")}

\* backupFile.Close() of the held file h, f.File.Close() returning err and
\* f.backupFile.Close() berr: the error returned and which of the two files
\* are closed after it
backupFileClose(h, err, berr) ==
    IF ~IsOk(err)
    THEN Result("File.Close", h.name, err, [file |-> "closed", backupFile |-> h.backupFile])
    ELSE IF h.backupFile # "nil"
    THEN Result("File.Close", h.name, berr, [file |-> "closed", backupFile |-> "closed"])
    ELSE Result("File.Close", h.name, NoErr, [file |-> "closed", backupFile |-> "nil"])

\* the caller closes the backupFile it holds and drops it
BackupFileClose ==
    \E err, berr \in CloseErrs :
        /\ handle.type = "backup" /\ result = NoResult
        /\ result' = backupFileClose(handle, err, berr)
        /\ handle' = NoHandle
        /\ UNCHANGED <<peer, callers, fsys, invalidErr, hashLength, hashes, disk, inst>>

NextBackupFile ==
    \/ NewBackupFS
    \/ BackupFileOpen \/ BackupFileReadDir \/ BackupFileClose
    \/ TimerFire \/ TimerRecord \/ TimerClose
    \/ Return

SpecBackupFile == InitBackupFS /\ [][NextBackupFile]_vars

----------------------------------------------------------------------------
(* BackupFS: reads *)

\* a call of Open, ReadFile or Stat on the BackupFS has returned
BackupRead == inst.phase \in {"armed", "cleaned"} /\ result.op \in {"Open", "ReadFile", "Stat"}

\* the call returned the node n of the side src: Open and Stat the file
\* itself, ReadFile the bytes of a regular file; a file that side refuses to
\* open is answered by its error
Served(src, n) ==
    IF n.fault = "open" THEN result.err = Err("permission")
    ELSE IF result.op = "ReadFile"
    THEN IF n.kind = "file"
         THEN IsOk(result.err) /\ result.val = [src |-> src, data |-> n.data]
         ELSE ~IsOk(result.err)
    ELSE /\ IsOk(result.err)
         /\ result.val.src = src
         /\ result.val.node = n

\* C8: Open, ReadFile and Stat of a path present only in the primary return
\* the primary's file, of a path present only in the snapshot the snapshot's
\* file, and of a path present in both the primary's file, never the snapshot's.
C8_PrimaryFirst ==
    BackupRead =>
        /\ result.arg \in DOMAIN fsys => Served("fsys", fsys[result.arg])
        /\ result.arg \in DOMAIN disk \ DOMAIN fsys => Served("backup", disk[result.arg])

\* Stat of a file of both sides has returned the primary's file, whose
\* permission bits differ from the copy's
C8_Witness ==
    /\ BackupRead
    /\ result.op = "Stat"
    /\ result.arg \in DOMAIN fsys \cap DOMAIN disk
    /\ fsys[result.arg] # disk[result.arg]
    /\ IsOk(result.err)
    /\ result.val.node = fsys[result.arg]

----------------------------------------------------------------------------
(* BackupFS: after the deadline *)

\* a call on the BackupFS has returned after the channel cleaned was closed
AfterCleaned == inst.cleaned /\ result # NoResult

\* the paths that existed only in the snapshot when the timer fired
SnapshotOnly == inst.removed \ DOMAIN fsys

\* the paths of the primary that a listing of the directory dir holds
PrimaryIn(dir) == FsGlob(fsys, invalidErr, dir)

\* a call after the deadline finds the snapshot gone and the primary served
DeadlinePassed ==
    /\ result.op \in {"Open", "ReadFile", "Stat", "ReadDir"} /\ result.arg \in SnapshotOnly
            => IsNotExist(result.err)
    /\ result.op = "Glob"
            => /\ \A i \in 1..Len(result.val) : result.val[i] \notin SnapshotOnly
               /\ result.val = PrimaryIn(result.arg)
    /\ result.op \in {"Open", "ReadFile", "Stat"} /\ result.arg \in DOMAIN fsys
            => Served("fsys", fsys[result.arg])
    /\ result.op = "ReadDir" /\ result.arg \in DOMAIN fsys /\ fsys[result.arg].kind = "dir"
            => /\ IsOk(result.err)
               /\ result.val = FsReadDir(fsys, invalidErr, result.arg, "fsys").list

\* C9 as stated: after the deadline has fired and the completion signal is
\* raised, every path that existed only in the snapshot is not found by Open,
\* ReadFile, Stat and ReadDir and absent from Glob, and every path of the
\* primary is served with the primary's content.
C9_Original == AfterCleaned => DeadlinePassed

\* C9: after the deadline has fired, the completion signal is raised and the
\* recorded outcome of the deletion is nil, every path that existed only in
\* the snapshot is not found by Open, ReadFile, Stat and ReadDir and absent
\* from Glob, and every path of the primary is served with the primary's content.
C9_AfterDeadline == AfterCleaned /\ IsOk(inst.cleaningErr) => DeadlinePassed

\* Open of a path that only the snapshot held has returned not-found after
\* the directory was removed
C9_Witness ==
    /\ AfterCleaned
    /\ IsOk(inst.cleaningErr)
    /\ result.op = "Open"
    /\ result.arg \in SnapshotOnly
    /\ IsNotExist(result.err)

----------------------------------------------------------------------------
(* BackupFS: the merged listing *)

\* ReadDir has returned for a directory of both sides
MergedListing ==
    /\ inst.phase \in {"armed", "cleaned"}
    /\ result.op = "ReadDir"
    /\ result.arg \in DOMAIN fsys /\ fsys[result.arg].kind = "dir"
    /\ result.arg \in DOMAIN disk /\ disk[result.arg].kind = "dir"

\* the names of a list of entries
Names(list) == { list[i].name : i \in 1..Len(list) }

\* C10: ReadDir of a directory present in both primary and snapshot returns
\* entries sorted by name with no two entries of the same name; the set of
\* names is the union of both sides' names; for a name present on both sides
\* the returned entry is the primary's.
C10_MergedListing ==
    MergedListing =>
        LET r == result.val
            p == FsReadDir(fsys, invalidErr, result.arg, "fsys").list
            b == FsReadDir(disk, "invalid", result.arg, "backup").list
        IN  /\ IsOk(result.err)
            /\ \A i \in 1..Len(r) - 1 : StrLess(r[i].name, r[i + 1].name)
            /\ Names(r) = Names(p) \cup Names(b)
            /\ \A i \in 1..Len(r) : r[i].name \in Names(p) \cap Names(b) => r[i].src = "fsys"

\* the listing of a directory holds a name of both sides and a name that
\* only the snapshot holds
C10_Witness ==
    /\ MergedListing
    /\ \E i \in 1..Len(result.val) : result.val[i].src = "backup"
    /\ \E i \in 1..Len(result.val) :
            /\ result.val[i].src = "fsys"
            /\ result.val[i].path \in DOMAIN disk

----------------------------------------------------------------------------
(* BackupFS: Glob *)

\* Glob has returned on the BackupFS
GlobReturned == inst.phase \in {"armed", "cleaned"} /\ result.op = "Glob"

\* the elements of a sequence
Elems(q) == { q[i] : i \in 1..Len(q) }

\* C11 as stated: Glob returns the primary's result and consults the snapshot
\* only when the primary fails with not-found (fs.Glob of the primary never
\* fails so, and the result is then the primary's).
C11_Original == GlobReturned => result.val = FsGlob(fsys, invalidErr, result.arg)

\* C11: Glob returns without an error the matches of the primary and of the
\* snapshot together, in increasing order and each once.
C11_MergedGlob ==
    GlobReturned =>
        /\ IsOk(result.err)
        /\ \A i \in 1..Len(result.val) - 1 : StrLess(result.val[i], result.val[i + 1])
        /\ Elems(result.val) = Elems(FsGlob(fsys, invalidErr, result.arg))
                                 \cup Elems(FsGlob(disk, "invalid", result.arg))

\* Glob has returned a match of the primary and a match that only the
\* snapshot holds
C11_Witness ==
    /\ GlobReturned
    /\ \E i \in 1..Len(result.val) : result.val[i] \in DOMAIN fsys
    /\ \E i \in 1..Len(result.val) : result.val[i] \in DOMAIN disk \ DOMAIN fsys

----------------------------------------------------------------------------
(* BackupFS: the deletion and its signal *)

----------------------------------------------------------------------------
(* BackupFS: the destination directory *)

\* a cleaned directory that must be rejected: empty, ".", "..", a bare
\* separator, or ending in separator + ".."
Rejected(dir) ==
    \/ dir \in { <<>>, <<".">>, <<".", ".">>, <<"/">> }
    \/ (Len(dir) >= 3 /\ SubSeq(dir, Len(dir) - 2, Len(dir)) = <<"/", ".", ".">>)

\* C13: NewBackupFS given a directory that is rejected after cleaning returns
\* an error and no instance, and neither creates the directory, copies a
\* file, nor arms the deletion timer.
C13_RejectsDir ==
    [][ (inst.phase = "none" /\ inst'.phase # "none" /\ Rejected(inst'.dir))
        => /\ inst'.phase = "failed"
           /\ ~IsOk(inst'.err)
           /\ disk' = disk
           /\ inst'.timer = "none" /\ ~inst'.cleaned ]_vars

\* NewBackupFS has refused a directory that ends in "/.."
C13_Witness ==
    /\ inst.phase = "failed"
    /\ inst.dir = <<".", ".", "/", ".", ".">>
    /\ inst.timer = "none"

----------------------------------------------------------------------------
(* The snapshot NewBackupFS leaves *)

\* NewBackupFS has returned the instance and the timer has not fired yet
Constructed == inst.phase = "armed" /\ inst.timer = "waiting"

\* the snapshot holds the regular file p of the primary with its bytes
CopiedBytes(p) ==
    /\ p \in DOMAIN disk
    /\ disk[p].kind = "file"
    /\ disk[p].data = fsys[p].data

\* the snapshot's file p has the source's permission bits with the owner's
\* write bit set
CopiedPerm(p) == p \in DOMAIN disk /\ disk[p].perm = orUserWrite(fsys[p].perm)

\* the snapshot holds the directory p of the primary
CopiedDir(p) == p \in DOMAIN disk /\ disk[p].kind = "dir"

\* C14: when NewBackupFS has returned successfully, the snapshot holds every
\* regular file of the primary at the same path with identical bytes and with
\* the source's permission bits OR-ed with the owner-write bit, and every
\* directory of the primary.
C14_SnapshotPopulated ==
    Constructed =>
        \A p \in DOMAIN fsys :
            IF fsys[p].kind = "file" THEN CopiedBytes(p) /\ CopiedPerm(p)
            ELSE CopiedDir(p)

\* what copy does establish: the bytes and the directories
BytesAndDirsCopied ==
    Constructed =>
        \A p \in DOMAIN fsys :
            IF fsys[p].kind = "file" THEN CopiedBytes(p) ELSE CopiedDir(p)

----------------------------------------------------------------------------
(* BackupFS: errors of the primary *)

\* the error with which the primary alone answers the call that has returned
PrimaryErr ==
    IF result.op = "ReadDir" THEN FsReadDir(fsys, invalidErr, result.arg, "fsys").err
    ELSE IF result.op = "ReadFile" THEN FsReadFile(fsys, invalidErr, result.arg).err
    ELSE FsOpen(fsys, invalidErr, result.arg).err

\* Open, ReadFile, Stat or ReadDir has returned and the primary failed it with
\* an error other than not-found
PrimaryFailed ==
    /\ inst.phase \in {"armed", "cleaned"}
    /\ result.op \in {"Open", "ReadFile", "Stat", "ReadDir"}
    /\ ~IsOk(PrimaryErr) /\ ~IsNotExist(PrimaryErr)

\* C15: when the primary fails with an error other than not-found, Open,
\* ReadFile, Stat and ReadDir return that error and nothing of the snapshot,
\* also when the snapshot holds the requested path.
C15_PrimaryErrorPropagates ==
    PrimaryFailed => result.err = PrimaryErr /\ result.val = NoVal

\* ReadFile of a file the primary refuses to open, which the snapshot holds
\* and could read, has returned the primary's permission error
C15_Witness ==
    /\ PrimaryFailed
    /\ result.op = "ReadFile"
    /\ result.arg \in DOMAIN disk
    /\ IsOk(FsReadFile(disk, "invalid", result.arg).err)
    /\ result.err = Err("permission")

----------------------------------------------------------------------------
(* HashFS: the classification of errors, under SpecHashFSFaulty *)

\* the wrapped filesystem reports the name n as absent
Missing(n) ==
    IF ValidPath(n) THEN n \notin DOMAIN fsys ELSE invalidErr = "notexist"

\* the wrapped filesystem fails the open, stat or hash step of the name n with
\* an error other than not-found
Refused(n) ==
    IF ValidPath(n) THEN n \in DOMAIN fsys /\ fsys[n].fault # "none"
    ELSE invalidErr = "invalid"

\* the wrapped filesystem holds n and hashes it
Hashable(n) == ValidPath(n) /\ n \in DOMAIN fsys /\ fsys[n].fault = "none"

\* c is a regular file and the token t is not the hash of its content
StaleToken(c, t) ==
    /\ Hashable(c) /\ fsys[c].kind = "file"
    /\ t # <<>> /\ t # MD5Hash(fsys[c].data, hashLength)

\* Open, ReadFile, Stat or HashedPath has returned
Resolving == result.op \in {"Open", "ReadFile", "Stat", "HashedPath"}

\* the call failed with an error other than not-found
FailedOther == ~IsOk(result.err) /\ ~IsNotExist(result.err)

\* the classification expected of the call of name whose stripped name is c
\* and whose token is t
Classified(name, c, t) ==
    /\ Missing(c) /\ Missing(name) => IsNotExist(result.err)
    /\ StaleToken(c, t) /\ Missing(name) => IsNotExist(result.err)
    /\ Refused(c) => FailedOther
    /\ Missing(c) /\ Refused(name) => FailedOther

\* C16: HashFS keeps the classification of the wrapped filesystem's errors:
\* when the file is absent, Open, ReadFile, Stat and HashedPath return an
\* error recognised as not-found although hash wraps it with its stage; when
\* the open, stat or hash step fails with another error, the returned error
\* is not classified as not-found.
C16_Classification ==
    Resolving =>
        Classified(result.arg, splitName(result.arg).canonicalName,
                   splitName(result.arg).hashFromName)

\* the public name of a file whose hashing fails was asked for, its literal
\* name is absent, and the call returned the wrapped error of the hash step
C16_Witness ==
    /\ Resolving
    /\ Refused(splitName(result.arg).canonicalName)
    /\ Missing(result.arg)
    /\ result.err.stage \in {"open file", "stat file", "hash file"}
    /\ FailedOther

\* an absent name was asked for and the call returned the wrapped not-found
AbsentNameNotFound ==
    /\ Resolving
    /\ Missing(result.arg)
    /\ Missing(splitName(result.arg).canonicalName)
    /\ result.err = Wrap("open file", ErrNotExist)

----------------------------------------------------------------------------
(* HashFS: files whose real name carries their hash, under SpecHashFS *)

\* the name n is not a file of the wrapped filesystem
Absent(n) == ~ValidPath(n) \/ n \notin DOMAIN fsys

\* the regular file p has in its real name the hash of its own content, and
\* its name without that token does not exist
EmbedsOwnHash(p) ==
    /\ p \in RegularFiles(fsys)
    /\ ContentHash(p) # <<>>
    /\ splitName(p).hashFromName = ContentHash(p)
    /\ Absent(splitName(p).canonicalName)

\* the call returned the file p: HashedPath its name, the others its content
ReturnedFile(p) ==
    /\ IsOk(result.err)
    /\ IF result.op = "HashedPath" THEN result.val = p
       ELSE IF result.op = "Stat" THEN result.val.node = fsys[p]
       ELSE ReturnedData = fsys[p].data

\* C17: for a file whose real name embeds the hash of its own content and
\* whose stripped name does not exist, the original name is the canonical
\* name: HashedPath leaves the name unchanged, and Open, ReadFile and Stat of
\* the name succeed with the file's content.
C17_EmbeddedHash ==
    Resolving /\ EmbedsOwnHash(result.arg) => ReturnedFile(result.arg)

----------------------------------------------------------------------------
(* HashFS: directories, under SpecHashFS *)

\* the directories of the wrapped filesystem
Directories == { p \in DOMAIN fsys : fsys[p].kind = "dir" }

\* the directories directly inside the directory dir
SubDirs(dir) == { p \in Children(fsys, dir) : fsys[p].kind = "dir" }

\* the regular files directly inside the directory dir
FilesIn(dir) == SortedSeq({ p \in Children(fsys, dir) : fsys[p].kind = "file" })

\* the listing that returned holds every directory of dir under its own name
ListsSubDirs(dir) ==
    /\ IsOk(result.err)
    /\ \A c \in SubDirs(dir) :
          IF result.op = "Glob" THEN c \in Elems(result.val)
          ELSE \E i \in 1..Len(result.val) :
                  result.val[i].name = PathBase(c) /\ result.val[i].isDir

\* C18: directories have no hash and their bare names always resolve: for
\* every existing directory d, Open(d) and Stat(d) succeed, HashedPath(d)
\* returns d unchanged, and d appears unrenamed in the Glob and ReadDir
\* results of its parent (unless a regular file of the parent fails the
\* listing).
C18_DirectoriesResolve ==
    result.arg \in Directories =>
        /\ result.op \in {"Open", "Stat"}
                => IsOk(result.err) /\ result.val.node = fsys[result.arg]
        /\ result.op = "HashedPath"
                => IsOk(result.err) /\ result.val = result.arg
        /\ result.op \in {"Glob", "ReadDir"} /\ OtherErrors(FilesIn(result.arg)) = {}
                => ListsSubDirs(result.arg)

----------------------------------------------------------------------------
(* hashFile: paginated listing, under SpecHashFile *)

\* a directory was opened through HashFS and read until io.EOF
ReadToEnd == handle.type = "hash" /\ handle.isDir /\ handle.eof

\* a single ReadDir(-1) on a fresh file of the same name
FreshReadAll ==
    hashFileReadDir([handle EXCEPT !.pos = 0, !.got = <<>>, !.eof = FALSE,
                                   !.failed = FALSE, !.calls = 0, !.reads = 0],
                    hashes, -1).res

\* the entries of the wrapped directory
Underlying == FsReadDir(fsys, invalidErr, handle.path, "fsys").list

\* the entry e as the listing is to show it: a directory unchanged, a regular
\* file under its public name
Public(e) ==
    IF e.isDir THEN e ELSE [e EXCEPT !.name = PathBase(PublicName(e.path).val)]

\* every regular file of the directory has a public name
AllResolve == \A i \in 1..Len(Underlying) : Underlying[i].isDir \/ Resolves(Underlying[i].path)

\* C19: on a directory handle of HashFS.Open, ReadDir(n) calls with any n,
\* continued until the end of the directory is reported, return in total
\* exactly the entries of a single ReadDir(-1) on a fresh handle: every
\* regular file once under its public name and every subdirectory once under
\* its unchanged name.
C19_Paginated ==
    ReadToEnd =>
        /\ ~handle.failed
        /\ IsOk(FreshReadAll.err)
        /\ handle.got = FreshReadAll.val
        /\ AllResolve
        /\ handle.got = [i \in 1..Len(Underlying) |-> Public(Underlying[i])]

\* the batches themselves lose and repeat nothing: when no call failed, the
\* entries got until io.EOF are those of a single ReadDir(-1)
BatchesAgree ==
    ReadToEnd /\ ~handle.failed =>
        IsOk(FreshReadAll.err) /\ handle.got = FreshReadAll.val

\* a directory of three entries was read to its end in more than one batch
BatchesRead ==
    /\ ReadToEnd /\ ~handle.failed
    /\ handle.reads > 1
    /\ Len(handle.got) = 3

----------------------------------------------------------------------------
(* backupFile: the listing of a handle, under SpecBackupFile *)

\* the first ReadDir(-1) on a directory handle of BackupFS.Open has returned
HandleListed ==
    /\ handle.type = "backup" /\ handle.isDir
    /\ result.op = "File.ReadDir"
    /\ handle.n = -1
    /\ handle.reads <= 1

\* the names a side holds in the directory of the handle
NamesOf(fs) == Names(HeldEntries(fs, handle.name, ""))

\* the names BackupFS.ReadDir of the same directory returns now, none if it fails
ReadDirNames ==
    IF IsOk(BReadDir(fsys, disk, handle.name).err)
    THEN Names(BReadDir(fsys, disk, handle.name).val)
    ELSE {}

\* the entries are in increasing order of their names, each name once
SortedByName(list) == \A i \in 1..Len(list) - 1 : StrLess(list[i].name, list[i + 1].name)

SnapshotOnlyListed ==
    /\ HandleListed
    /\ handle.src = "backup"
    /\ Names(result.val) # {}

\* a handle opened before the deadline listed the primary's names after it
ListedAfterDeadline ==
    /\ HandleListed
    /\ disk = NoDisk /\ inst.removed # {}
    /\ handle.backupFile = "open"
    /\ Names(result.val) # {}

----------------------------------------------------------------------------
(* BackupFS: a destination directory that already holds files *)

\* the step in which NewBackupFS returns an instance
Constructs == inst.phase = "none" /\ inst'.phase = "armed"

\* the path p the directory held before is still there after the step
Kept(p) == p \in DOMAIN disk' /\ disk'[p].kind = disk[p].kind

\* the file p the directory held, which the primary does not have, is read
\* through the new instance from the snapshot with the bytes it had
StaysReadable(p) ==
    /\ Kept(p)
    /\ disk'[p].data = disk[p].data
    /\ BReadFile(fsys, disk', p).val = [src |-> "backup", data |-> disk[p].data]

\* the file p the directory held, which the primary has too, holds the
\* primary's bytes after the step
Overwritten(p) == Kept(p) /\ disk'[p].data = fsys[p].data

\* C21: constructing a BackupFS on a destination directory that already
\* holds files removes none of them: a file of the directory that the new
\* primary does not have stays readable through the new instance as snapshot
\* content, and a file the primary has is overwritten with the primary's bytes.
C21_KeepsExisting ==
    [][ Constructs =>
          \A p \in DOMAIN disk :
              /\ Kept(p)
              /\ disk[p].kind = "file" /\ p \notin DOMAIN fsys => StaysReadable(p)
              /\ disk[p].kind = "file" /\ p \in DOMAIN fsys => Overwritten(p) ]_vars

\* an instance was constructed on a directory an earlier run had filled: the
\* snapshot holds a file the primary does not have, and a file of the earlier
\* run (it has the mode of that run) with the primary's other bytes
C21_Witness ==
    /\ Constructed
    /\ \E p \in DOMAIN disk \ DOMAIN fsys : disk[p].kind = "file"
    /\ \E q \in DOMAIN disk \cap DOMAIN fsys :
          /\ disk[q].kind = "file"
          /\ disk[q].perm # orUserWrite(fsys[q].perm)
          /\ disk[q].data = "a" /\ fsys[q].data = "a"

----------------------------------------------------------------------------
(* BackupFS: the completion signal, under SpecBackupFSLive *)

\* C22: after a successful NewBackupFS the channel Cleaned() is eventually
\* closed once the time-to-live has elapsed, the goroutine being scheduled
\* fairly, whatever reads run meanwhile and whether or not os.RemoveAll
\* succeeds.
C22_EventuallyCleaned == (inst.phase = "armed") ~> inst.cleaned

\* the channel was closed after reads ran while the timer waited and
\* although os.RemoveAll failed
C22_Witness ==
    /\ inst.cleaned
    /\ ~IsOk(inst.cleaningErr)
    /\ \E p \in DOMAIN fsys : fsys[p].fault = "open"

----------------------------------------------------------------------------
(* A construction that fails in the copy *)

\* NewBackupFS has returned the error of s.copy(dir)
CopyFailed ==
    /\ inst.phase = "failed"
    /\ inst.err.stage = "copy files to the backup directory"

\* C23: when creating the destination directory or copying a file fails,
\* NewBackupFS returns an error and no instance and arms no deletion: the
\* completion signal of that construction is never raised and the directory
\* is never removed by it.
C23_FailedCopyArmsNothing ==
    CopyFailed =>
        /\ ~IsOk(inst.err)
        /\ inst.timer = "none"
        /\ ~inst.cleaned /\ inst.closes = 0
        /\ inst.removals = 0 /\ inst.removed = {}
        /\ result = NoResult

\* the copy has failed on reading a file of the primary, after it wrote into
\* the directory, and what it wrote is still there
C23_Witness ==
    /\ CopyFailed
    /\ inst.err.kind = "io"
    /\ disk # NoDisk
    /\ \E p \in DOMAIN fsys : fsys[p].fault = "read" /\ p \in DOMAIN disk

----------------------------------------------------------------------------
(* backupFile: the argument of ReadDir, under SpecBackupFile *)

\* the first ReadDir(n) on a directory handle of BackupFS.Open has returned
FirstReadDir ==
    /\ handle.type = "backup" /\ handle.isDir
    /\ result.op = "File.ReadDir"
    /\ handle.calls = 1

\* the call returned every entry of the directory and a nil error
ListedAll ==
    /\ IsOk(result.err)
    /\ Names(result.val) = ReadDirNames

\* C24: on a directory handle of BackupFS, ReadDir(n) with n > 0 returns the
\* unsupported-argument error, and ReadDir(n) with n <= 0, n = 0 included,
\* returns all the entries of the directory in one slice with a nil error.
C24_ReadDirArgument ==
    FirstReadDir =>
        IF handle.n > 0 THEN result.err = Err("unsupported") /\ result.val = NoVal
        ELSE ListedAll

\* the part of C24 for n other than 0
ReadDirArgumentButZero == (FirstReadDir /\ handle.n # 0) => C24_ReadDirArgument

\* ReadDir(0) on the handle of a directory that has entries was refused
ReadDirZeroRefused ==
    /\ FirstReadDir
    /\ handle.n = 0
    /\ result.err = Err("unsupported")
    /\ ReadDirNames # {}

----------------------------------------------------------------------------
(* backupFile: Close, under SpecBackupFile *)

\* Close has returned on a backupFile that had opened the directory of the
\* snapshot
ClosedBoth ==
    /\ result.op = "File.Close"
    /\ result.val.backupFile # "nil"

\* C25: closing a BackupFS handle that has opened a snapshot-side directory
\* handle closes both underlying handles: after Close returns, with nil or
\* with the error of either side, neither the wrapped file nor the file of
\* the snapshot remains open.
C25_ClosesBoth ==
    ClosedBoth => result.val.file = "closed" /\ result.val.backupFile = "closed"

\* the part of C25 for a wrapped file that closes without an error
ClosesBothAfterNil ==
    (ClosedBoth /\ result.val.backupFile = "open") => ~IsOk(result.err)

\* Close returned the error of the wrapped file and left the directory of
\* the snapshot open, after a ReadDir(-1) that listed both
SnapshotHandleLeftOpen ==
    /\ ClosedBoth
    /\ ~IsOk(result.err)
    /\ result.val.backupFile = "open"
    /\ inst.phase = "armed"

----------------------------------------------------------------------------
(* HashFS.hash under concurrent callers, under SpecHashConcurrent *)

\* what HashFS.hash(name) returns to a single caller that starts with an
\* empty cache
Sequential(name) == hash(<<>>, name)

\* every entry of the cache is the hasher's token of the content of its path
EntriesAreTokens ==
    \A name \in DOMAIN hashes :
        /\ name \in RegularFiles(fsys)
        /\ hashes[name] = MD5Hash(fsys[name].data, hashLength)

\* an entry, once set, stays and keeps its value
EntriesKept ==
    \A name \in DOMAIN hashes : name \in DOMAIN hashes' /\ hashes'[name] = hashes[name]

\* a goroutine about to store, or returning, has what the sequential caller gets
CallersAgree ==
    \A c \in Callers :
        /\ callers[c].pc \in {"store", "done"} =>
                /\ callers[c].h = Sequential(callers[c].name).h
                /\ callers[c].err = Sequential(callers[c].name).err
        /\ callers[c].pc = "done" /\ IsOk(callers[c].err)
                /\ callers[c].name \in RegularFiles(fsys)
                => callers[c].name \in DOMAIN hashes

\* the public methods return the same with the cache as it is and with an
\* empty cache
CacheTransparent ==
    \A name \in HashNames :
        /\ ReadFile(hashes, name).res = ReadFile(<<>>, name).res
        /\ HashedPath(hashes, name).res = HashedPath(<<>>, name).res

\* C26: under any interleaving of concurrent HashFS callers over an
\* unchanging filesystem every cache entry of a path is the hasher's token
\* of that path's content: an entry once set is never replaced by another
\* value, redundant first computations write equal values, and every caller
\* gets what a single sequential caller would get.
C26_ConcurrentCache ==
    /\ [](EntriesAreTokens /\ CallersAgree)
    /\ [][EntriesKept]_vars

\* two goroutines missed the same file and hashed it: one has stored the
\* entry and returned, the other is about to store the same value again
C26_Witness ==
    /\ callers[1].pc = "done" /\ callers[2].pc = "store"
    /\ callers[1].name = callers[2].name
    /\ callers[1].name \in DOMAIN hashes
    /\ callers[2].h = hashes[callers[2].name]
    /\ callers[2].h # <<>>

----------------------------------------------------------------------------
(* hashFile: a batch that comes out empty, under SpecHashFileDangling *)

\* ReadDir(n) with n > 0 has returned on a directory handle of HashFS.Open
BatchRead ==
    /\ handle.type = "hash" /\ handle.isDir
    /\ result.op = "File.ReadDir"
    /\ handle.n > 0

\* C27: on a directory handle of HashFS, ReadDir(n) with n > 0 never returns
\* an empty slice with a nil error: with no entries it returns an error
\* (io.EOF at the end of the directory), also when every entry of the batch
\* read from the wrapped directory is dropped because its resolution fails
\* with not-found.
C27_NoEmptyBatchWithNil ==
    BatchRead => ~(result.val = <<>> /\ IsOk(result.err))

\* no entry of the directory of the handle is a link to nothing
NothingDropped ==
    \A p \in RegularFiles(fsys) :
        (PathSplit(p).d = handle.path \/ PathJoin(handle.path, PathSplit(p).f) = p)
            => fsys[p].fault # "dangling"

\* the part of C27 for batches no entry of which is dropped
NoEmptyBatchUnlessDropped ==
    (BatchRead /\ NothingDropped) => ~(result.val = <<>> /\ IsOk(result.err))

\* ReadDir(1) read the one entry that does not resolve and returned no entry
\* and no error, with entries of the directory still unread
EmptyBatchBeforeEnd ==
    /\ BatchRead
    /\ result.val = <<>> /\ IsOk(result.err)
    /\ handle.pos < Len(FsReadDir(fsys, invalidErr, handle.path, "fsys").list)

----------------------------------------------------------------------------
(* Two instances on one directory, under SpecBackupFSShared *)

\* ReadFile through the first instance, whose own timer has not fired, has
\* returned for a regular file that only its snapshot holds or held
SnapshotOnlyRead ==
    /\ result.op = "ReadFile"
    /\ inst.phase = "armed" /\ inst.timer = "waiting"
    /\ result.arg \notin DOMAIN fsys
    /\ result.arg \in RegularFiles(disk) \cup peer.removed

\* C28: the snapshot of a BackupFS instance is removed only by that
\* instance's own deadline: with two instances constructed on the same
\* directory with different time-to-live values, a path of the snapshot only
\* stays readable through the longer-lived instance until its own
\* time-to-live fires.
C28_OwnDeadlineOnly ==
    SnapshotOnlyRead => IsOk(result.err) /\ result.val.src = "backup"

\* the part of C28 before the timer of the other instance fires
ReadableUntilPeerFires ==
    (SnapshotOnlyRead /\ peer.timer # "fired") => IsOk(result.err)

\* the timer of the shorter-lived instance fired and the longer-lived one,
\* still before its deadline, reports the path of its snapshot as not found
RemovedByPeer ==
    /\ SnapshotOnlyRead
    /\ peer.timer = "fired"
    /\ result.arg \in peer.removed
    /\ IsNotExist(result.err)

----------------------------------------------------------------------------
(* HashFS.ReadDir: the names of a listing, under SpecHashFS *)

\* HashFS.ReadDir has returned a listing
Listed == result.op = "ReadDir" /\ IsOk(result.err)

\* no two entries of the listing have the same name
DistinctNames(list) ==
    \A i, j \in 1..Len(list) : list[i].name = list[j].name => i = j

\* the directory dir holds a regular file and a second file under the name
\* of the first with the token of the first's content inserted
HoldsHashedCopy(dir) ==
    \E p, q \in RegularFiles(fsys) :
        /\ p # q
        /\ p \in Children(fsys, dir) /\ q \in Children(fsys, dir)
        /\ q = hashedPath(p, MD5Hash(fsys[p].data, hashLength))

\* the directory dir holds a regular file and a second file whose name,
\* with the part that has the shape of a token left out, is the name of the
\* first
HoldsStrippedName(dir) ==
    \E p, q \in RegularFiles(fsys) :
        /\ p # q
        /\ p \in Children(fsys, dir) /\ q \in Children(fsys, dir)
        /\ splitName(q).canonicalName = p

\* C29: HashFS.ReadDir never returns two entries with the same name (the
\* names of the wrapped directory are pairwise distinct): distinct files get
\* distinct public names, also when the directory holds a file and a copy of
\* it stored under its already-hashed name.
C29_DistinctNames ==
    Listed => DistinctNames(result.val)

\* the part of C29 for directories no file of which has the name of another
\* with a token inserted
DistinctWithoutCopy ==
    (Listed /\ ~HoldsStrippedName(result.arg)) => DistinctNames(result.val)

\* the listing of a directory that holds m.s and its copy under the hashed
\* name has two entries and both have the hashed name
CopyListedTwice ==
    /\ Listed
    /\ HoldsHashedCopy(result.arg)
    /\ hashLength > 0
    /\ Len(result.val) >= 2
    /\ \E i, j \in 1..Len(result.val) :
          /\ i # j
          /\ result.val[i].name = result.val[j].name
          /\ result.val[i].path # result.val[j].path
          /\ fsys[result.val[i].path].data = fsys[result.val[j].path].data

----------------------------------------------------------------------------
(* HashFS.canonicalName: the final segment, under SpecHashFS *)

\* the final segment of the name, or what follows its leading dot, has the
\* shape of a token
TokenOnly(name) ==
    \/ MD5IsHash(PathSplit(name).f, hashLength)
    \/ /\ PathSplit(name).f # <<>>
       /\ Head(PathSplit(name).f) = "."
       /\ MD5IsHash(Tail(PathSplit(name).f), hashLength)

\* the path is not empty and does not end in a slash
NonEmptySegment(path) == PathSplit(path).f # <<>>

\* a call that resolves the name it was given has returned
ResolvedCall == result.op \in {"Open", "ReadFile", "Stat", "HashedPath"}

\* ReadDir has returned for a directory that holds a regular file with a
\* name of the shape of a token
ListedTokenOnly ==
    /\ result.op = "ReadDir"
    /\ result.arg \in Directories
    /\ \E p \in RegularFiles(fsys) : p \in Children(fsys, result.arg) /\ TokenOnly(p)

\* C30: the canonical name HashFS computes always has a non-empty final
\* segment: for a name whose final segment (or the part after its leading
\* dot) has the shape of a token, the path handed to the wrapped filesystem
\* is never the bare directory prefix or the empty string, and the listing of
\* a directory that holds such a file succeeds.
C30_NonEmptyFinalSegment ==
    /\ (ResolvedCall /\ TokenOnly(result.arg))
            => /\ NonEmptySegment(splitName(result.arg).canonicalName)
               /\ (IsOk(result.err) /\ result.op # "HashedPath")
                      => NonEmptySegment(result.val.path)
    /\ ListedTokenOnly => IsOk(result.err)

\* the part of C30 for names whose final segment is more than a token
NonEmptyUnlessTokenOnly ==
    (ResolvedCall /\ NonEmptySegment(result.arg) /\ ~TokenOnly(result.arg))
        => /\ NonEmptySegment(splitName(result.arg).canonicalName)
           /\ (IsOk(result.err) /\ result.op # "HashedPath")
                  => NonEmptySegment(result.val.path)

\* the file s/0 exists and Open of it handed the directory prefix "s/" to
\* the wrapped filesystem, which refused it as an invalid path
PrefixHanded ==
    /\ result.op = "Open"
    /\ result.arg \in RegularFiles(fsys)
    /\ hashLength > 0
    /\ splitName(result.arg).canonicalName = <<"s", "/">>
    /\ result.err = Wrap("open file", Err("invalid"))

\* the listing of the directory that holds the file s/0 failed
ListingRefused ==
    /\ ListedTokenOnly
    /\ hashLength > 0
    /\ result.err = Wrap("open file", Err("invalid"))

----------------------------------------------------------------------------
====
